---- MODULE Spec2Model ----
(***************************************************************************)
(* A model of wogong/beancount-bot: the message-to-transaction compiler,   *)
(* the append/revert handlers of bot.py and the auto-balance scheduler of  *)
(* auto_balance.py, all working on one ledger file.                        *)
(*                                                                         *)
(* Text is modelled as a sequence of pieces.  A piece is a record with a   *)
(* field "kind": a newline, an opaque run of hand-written text, a rendered *)
(* balance assertion, a transaction header or a posting.  Appending is     *)
(* concatenation, str.endswith is the suffix test on sequences, and a line *)
(* is a maximal run of pieces between newlines.  Strings the code looks    *)
(* into (account names, tokens) are sequences of one-character strings.    *)
(***************************************************************************)
EXTENDS Integers, Sequences, FiniteSets, TLC

VARIABLES
    config,              \* AutoBalanceManager.config.entries
    clock,               \* index of the current calendar date
    ledger_exists,       \* the ledger file exists
    content,             \* the ledger file's text
    last_processed,      \* AutoBalanceManager._last_processed (its keys)
    tick,                \* the two auto-balance jobs' process_due_entries calls
    pending_transactions,\* context.chat_data['pending_transactions']
    next_message_id,     \* the id Telegram gives the next message sent
    bean_call,           \* the bean handler suspended at reply_text
    accounts,            \* context.bot_data.accounts, in its iteration order
    balances,            \* context.bot_data.balances
    bql_connection,      \* context.bot_data.bql_connection
    last_errors,         \* context.bot_data.last_errors
    posts,               \* text messages handled by bean so far (history)
    reverted,            \* ids whose revert succeeded (history)
    last_write,          \* the last write to the file, when it is bean's (history)
    restarts,            \* process restarts so far (history)
    deletes,             \* external removals of the ledger file so far (history)
    op                   \* the step last taken and what it answered

vars == <<config, clock, ledger_exists, content, last_processed, tick,
          pending_transactions, next_message_id, bean_call, accounts, balances,
                   bql_connection, last_errors, posts,
          reverted, last_write, restarts, deletes, op>>

(***************************************************************************)
(* Bounds of the model.                                                    *)
(***************************************************************************)
MaxDay == 2
MaxMsgs == 2
MaxRestarts == 1
MaxDeletes == 1
MaxTokens == 5

(***************************************************************************)
(* Generic sequence helpers.                                               *)
(***************************************************************************)
IsPrefix(p, s) == Len(p) <= Len(s) /\ SubSeq(s, 1, Len(p)) = p

\* str.endswith
EndsWith(s, t) == Len(t) <= Len(s) /\ SubSeq(s, Len(s) - Len(t) + 1, Len(s)) = t

Range(s) == {s[i] : i \in 1..Len(s)}

(***************************************************************************)
(* Calendar.  The clock walks through 07-15, 07-16, 08-15, 08-16, ...      *)
(***************************************************************************)
DateOf(i) == [m |-> 7 + ((i - 1) \div 2), d |-> 15 + ((i - 1) % 2)]

Today == DateOf(clock)

\* None, for a date and for a day of the month
NoDate == [m |-> 0, d |-> 0]
NoDay == 0

\* a matcher that goes by the day of the month alone
DateMatcherMatchesDay(matcher, today) ==
    today.d = matcher.day_of_month \/ today.d = matcher.exact_date.d

\* DateMatcher.matches
DateMatcherMatches(matcher, today) ==
    IF matcher.exact_date # NoDate
    THEN today = matcher.exact_date
    ELSE IF matcher.day_of_month = NoDay
         THEN FALSE
         ELSE today.d = matcher.day_of_month

\* AutoBalanceEntry.is_due
IsDue(entry, today) == \E matcher \in entry.dates : DateMatcherMatches(matcher, today)

DayOfMonth(n) == [day_of_month |-> n, exact_date |-> NoDate]
ExactDate(m, d) == [day_of_month |-> NoDay, exact_date |-> [m |-> m, d |-> d]]

(***************************************************************************)
(* Ledger text.                                                            *)
(***************************************************************************)
NL == [kind |-> "nl"]
RawText(s) == [kind |-> "raw", text |-> s]

\* AutoBalanceAccount.format_amount: Decimal.quantize to `precision' digits
\* (ROUND_HALF_EVEN) of an amount held in thousandths.
Pow10(n) == IF n = 0 THEN 1 ELSE IF n = 1 THEN 10 ELSE IF n = 2 THEN 100 ELSE 1000

RoundHalfEven(n, unit) ==
    LET a == IF n < 0 THEN -n ELSE n
        q == a \div unit
        r == a % unit
        up == (2 * r > unit) \/ (2 * r = unit /\ q % 2 = 1)
        m == IF up THEN q + 1 ELSE q
    IN  IF n < 0 THEN -m ELSE m

FormatAmount(account, amount) ==
    IF account.precision >= 3
    THEN [digits |-> amount * Pow10(account.precision - 3), scale |-> account.precision]
    ELSE [digits |-> RoundHalfEven(amount, Pow10(3 - account.precision)),
          scale |-> account.precision]

\* format_balance_line: "<date> balance <account> <amount> <currency>\n"
FormatBalanceLine(entry_date, account, amount) ==
    << [kind |-> "balance", date |-> entry_date, account |-> account.account,
        amount |-> FormatAmount(account, amount), currency |-> account.currency],
       NL >>

\* append_balance_line: open(..., "a") creates the file; the line already
\* ends with a newline, otherwise one is added.
AppendBalanceLine(file, line) ==
    [exists |-> TRUE,
     content |-> (IF file.exists THEN file.content ELSE <<>>) \o line
                 \o (IF Len(line) > 0 /\ line[Len(line)] = NL THEN <<>> ELSE <<NL>>)]

\* raw_line.strip().startswith("<date> balance <account>") for one line of
\* the text: the piece at i opens a line and is a balance assertion of that
\* date whose account name starts with account_name.
LineStartsWithPrefix(text, i, target_date, account_name) ==
    /\ i = 1 \/ text[i - 1] = NL
    /\ text[i].kind = "balance"
    /\ text[i].date = target_date
    /\ IsPrefix(account_name, text[i].account)

HasExistingLineNever(file, target_date, account_name) == FALSE

\* AutoBalanceManager._has_existing_line
HasExistingLine(file, target_date, account_name) ==
    /\ file.exists
    /\ \E i \in 1..Len(file.content) :
          LineStartsWithPrefix(file.content, i, target_date, account_name)

\* The lines of the text that are a balance assertion for exactly this
\* date and account (what a ledger parser reads as one).
BalanceLines(text, d, a) ==
    {i \in 1..Len(text) :
        /\ i = 1 \/ text[i - 1] = NL
        /\ text[i].kind = "balance"
        /\ text[i].date = d
        /\ text[i].account = a}

(***************************************************************************)
(* Auto-balance configurations (load_auto_balance_config's result).        *)
(* api_function: "" takes the static balance; "unknown" is a name that     *)
(* resolve_fetcher cannot resolve; "sync" is a registered plain callable   *)
(* that returns or raises; "async" is a registered coroutine function,     *)
(* awaited by resolve_amount.                                              *)
(***************************************************************************)
Account(name, api, balance, precision) ==
    [account |-> name, currency |-> "USD", balance |-> balance,
     api_function |-> api, precision |-> precision]

AcctCash == <<"A", ":", "c">>
AcctChecking == <<"A", ":", "c", ":", "k">>
AcctBank == <<"B">>
AcctWallet == <<"W">>

ConfigPrefix ==
    << [dates |-> {DayOfMonth(15)},
        accounts |-> << Account(AcctChecking, "", 1005, 2),
                        Account(AcctCash, "async", 0, 2) >>],
       [dates |-> {ExactDate(7, 16)},
        accounts |-> << Account(AcctBank, "unknown", 0, 2) >>] >>

ConfigPlain ==
    << [dates |-> {DayOfMonth(15)},
        accounts |-> << Account(AcctBank, "async", 0, 2),
                        Account(AcctWallet, "", 2500, 0) >>],
       [dates |-> {ExactDate(7, 15), DayOfMonth(16)},
        accounts |-> << Account(AcctWallet, "sync", 0, 3) >>] >>

ConfigSet == {ConfigPrefix, ConfigPlain}

\* an entry for one date of another month and an entry for the 16th: the
\* 15th of the first month matches none
ConfigDates ==
    << [dates |-> {ExactDate(8, 15)},
        accounts |-> << Account(AcctBank, "", 0, 2) >>],
       [dates |-> {DayOfMonth(16)},
        accounts |-> << Account(AcctWallet, "sync", 0, 3) >>] >>

\* no entries
ConfigEmpty == << >>

\* The values a fetcher may return, in thousandths.
FetchedAmounts == {1500}

\* The (entry, account) positions process_due_entries visits, in loop order.
RECURSIVE DuePositionsFrom(_, _, _)
DuePositionsFrom(entries, e, today) ==
    IF e > Len(entries) THEN <<>>
    ELSE (IF IsDue(entries[e], today)
          THEN [a \in 1..Len(entries[e].accounts) |-> <<e, a>>]
          ELSE <<>>)
         \o DuePositionsFrom(entries, e + 1, today)

DuePositions(entries, today) == DuePositionsFrom(entries, 1, today)

AccountAt(entries, pos) == entries[pos[1]].accounts[pos[2]]

(***************************************************************************)
(* AutoBalanceManager.process_due_entries.  A call runs without yielding   *)
(* until it awaits a coroutine fetcher; it is resumed when the fetcher     *)
(* returns or raises.  A fetcher that does I/O returns or raises, and the  *)
(* append succeeds or raises (OSError): RunLoop gives every outcome.       *)
(***************************************************************************)
Ticks == {"startup", "repeating"}

IdleTick == [pc |-> "idle", today |-> NoDate, idx |-> 0, additions |-> <<>>,
             errors |-> <<>>, skipped |-> <<>>, scanned |-> <<>>]

File == [exists |-> ledger_exists, content |-> content]

NoWrite == [kind |-> "other"]

\* AutoBalanceAccount.resolve_amount with resolve_fetcher: what the call can
\* give for this account: [kind |-> "value" | "raise" | "await"].
ResolveAmount(account, resumed) ==
    IF account.api_function = ""
    THEN {[kind |-> "value", amount |-> account.balance]}
    ELSE IF account.api_function = "unknown"
    THEN {[kind |-> "raise", amount |-> 0]}
    ELSE IF account.api_function = "async" /\ ~resumed
    THEN {[kind |-> "await", amount |-> 0]}
    ELSE {[kind |-> "raise", amount |-> 0]}
         \cup {[kind |-> "value", amount |-> v] : v \in FetchedAmounts}

\* What append_balance_line can do: write the line, or raise.
AppendOutcomes == {"written", "raise"}

NextAfterFailureStop(due, i) == Len(due) + 1

\* except Exception: errors.append(...); continue -- the loop goes on with
\* the account after the one that failed.
NextAfterFailure(due, i) == i + 1

\* The body of the loop for the due account at index i, followed by the
\* rest of the loop.  st = [file, lp, additions, errors, skipped, scanned]:
\* the file, the watermark, the two lists the call returns, and the due
\* accounts it passed over because of the watermark (skipped) and because
\* of a line found in the file (scanned).  A result is [pc, idx, st].
RECURSIVE RunLoop(_, _, _, _, _, _)
RunLoop(entries, today, due, i, st, resumed) ==
    IF i > Len(due)
    THEN {[pc |-> "idle", idx |-> i, st |-> st]}
    ELSE
      LET account == AccountAt(entries, due[i])
          key == <<account.account, today>>
          continue(st2) == RunLoop(entries, today, due, i + 1, st2, FALSE)
          failed == [st EXCEPT !.errors = Append(@, due[i])]
          except == RunLoop(entries, today, due, NextAfterFailure(due, i), failed, FALSE)
      IN
      IF ~resumed /\ key \in st.lp
      THEN continue([st EXCEPT !.skipped = Append(@, due[i])])
      ELSE IF ~resumed /\ HasExistingLine(st.file, today, account.account)
      THEN continue([st EXCEPT !.lp = @ \cup {key},
                               !.scanned = Append(@, due[i])])
      ELSE UNION {
        IF got.kind = "await"
        THEN {[pc |-> "awaiting", idx |-> i, st |-> st]}
        ELSE IF got.kind = "raise"
        THEN except
        ELSE
          LET line == FormatBalanceLine(today, account, got.amount) IN
          UNION {
            IF out = "raise"
            THEN except
            ELSE continue([st EXCEPT
                   !.file = AppendBalanceLine(@, line),
                   !.lp = @ \cup {key},
                   !.additions = Append(@, [pos |-> due[i], amount |-> got.amount,
                                            line |-> line])])
            : out \in AppendOutcomes }
        : got \in ResolveAmount(account, resumed) }

\* The effect of one run of the loop on the program's state.  A call that
\* returns hands its result to auto_balance_job (op); a call that awaits
\* keeps its locals.
TickRuns(t, today, i, st, resumed) ==
    \E r \in RunLoop(config, today, DuePositions(config, today), i, st, resumed) :
        /\ tick' = [tick EXCEPT ![t] =
                      IF r.pc = "idle" THEN IdleTick
                      ELSE [pc |-> r.pc, today |-> today, idx |-> r.idx,
                            additions |-> r.st.additions, errors |-> r.st.errors,
                            skipped |-> r.st.skipped, scanned |-> r.st.scanned]]
        /\ ledger_exists' = r.st.file.exists
        /\ content' = r.st.file.content
        /\ last_processed' = r.st.lp
        /\ last_write' = IF r.st.file = File THEN last_write ELSE NoWrite
        /\ op' = [name |-> IF r.pc = "idle" THEN "tick_return" ELSE "tick_await",
                  id |-> 0, task |-> t, today |-> today, resumed |-> resumed,
                  additions |-> r.st.additions, errors |-> r.st.errors,
                  skipped |-> r.st.skipped, scanned |-> r.st.scanned]
        /\ UNCHANGED <<config, clock, pending_transactions, next_message_id,
                       bean_call, accounts, balances,
                   bql_connection, last_errors, posts, reverted, restarts, deletes>>

\* A job calls process_due_entries (auto_balance_job).
TickStart(t) ==
    /\ tick[t].pc = "idle"
    /\ Len(config) > 0
    /\ TickRuns(t, Today, 1,
                [file |-> File, lp |-> last_processed, additions |-> <<>>,
                 errors |-> <<>>, skipped |-> <<>>, scanned |-> <<>>], FALSE)

\* process_due_entries without configured entries returns [], [] at once
TickEmpty(t) ==
    /\ tick[t].pc = "idle"
    /\ Len(config) = 0
    /\ op' = [name |-> "tick_return", id |-> 0, task |-> t, today |-> Today,
              resumed |-> FALSE, additions |-> <<>>, errors |-> <<>>,
              skipped |-> <<>>, scanned |-> <<>>]
    /\ UNCHANGED <<config, clock, ledger_exists, content, last_processed, tick,
                   pending_transactions, next_message_id, bean_call, accounts,
                   balances, bql_connection, last_errors, posts, reverted,
                   last_write, restarts, deletes>>

\* The awaited fetcher of a suspended call returns or raises.
TickResume(t) ==
    /\ tick[t].pc = "awaiting"
    /\ TickRuns(t, tick[t].today, tick[t].idx,
                [file |-> File, lp |-> last_processed,
                 additions |-> tick[t].additions, errors |-> tick[t].errors,
                 skipped |-> tick[t].skipped, scanned |-> tick[t].scanned], TRUE)

(***************************************************************************)
(* Characters.                                                             *)
(***************************************************************************)
LowerLetters == <<"a", "b", "c", "d", "e", "f", "g", "h", "i", "j", "k", "l", "m",
                  "n", "o", "p", "q", "r", "s", "t", "u", "v", "w", "x", "y", "z">>
UpperLetters == <<"A", "B", "C", "D", "E", "F", "G", "H", "I", "J", "K", "L", "M",
                  "N", "O", "P", "Q", "R", "S", "T", "U", "V", "W", "X", "Y", "Z">>
DigitChars == <<"0", "1", "2", "3", "4", "5", "6", "7", "8", "9">>

IsLetter(c) == c \in Range(LowerLetters) \cup Range(UpperLetters)
IsDigit(c) == c \in Range(DigitChars)
DigitVal(c) == (CHOOSE i \in 1..Len(DigitChars) : DigitChars[i] = c) - 1

\* str.upper and the case folding of re.IGNORECASE, one character
UpperChar(c) ==
    IF c \in Range(LowerLetters)
    THEN UpperLetters[CHOOSE i \in 1..Len(LowerLetters) : LowerLetters[i] = c]
    ELSE c
UpperNone(s) == s

Upper(s) == [i \in 1..Len(s) |-> UpperChar(s[i])]

(***************************************************************************)
(* AMOUNT_TOKEN_PATTERN and parse_amount_currency.                         *)
(***************************************************************************)
\* the length of the run of digits of tok that starts at position i
RECURSIVE DigitRun(_, _)
DigitRun(tok, i) ==
    IF i <= Len(tok) /\ IsDigit(tok[i]) THEN 1 + DigitRun(tok, i + 1) ELSE 0

NoMatch == [matched |-> FALSE, amount |-> <<>>, currency |-> <<>>]

\* AMOUNT_TOKEN_PATTERN.match:
\*   ^([+-]?(?:\d+(?:\.\d+)?|\.\d+))([A-Za-z]*)$
\* The character classes are disjoint, so the match is decided left to
\* right: numEnd is the last position of group 1, 0 when there is none.
AmountTokenMatch(tok) ==
    LET n == Len(tok)
        s == IF n >= 1 /\ tok[1] \in {"+", "-"} THEN 1 ELSE 0
        d1 == DigitRun(tok, s + 1)
        hasFrac(j) == j <= n /\ tok[j] = "." /\ DigitRun(tok, j + 1) > 0
        numEnd == IF d1 > 0
                  THEN IF hasFrac(s + d1 + 1)
                       THEN s + d1 + 1 + DigitRun(tok, s + d1 + 2)
                       ELSE s + d1
                  ELSE IF hasFrac(s + 1)
                       THEN s + 1 + DigitRun(tok, s + 2)
                       ELSE 0
    IN  IF numEnd > 0 /\ \A k \in (numEnd + 1)..n : IsLetter(tok[k])
        THEN [matched |-> TRUE, amount |-> SubSeq(tok, 1, numEnd),
              currency |-> SubSeq(tok, numEnd + 1, n)]
        ELSE NoMatch

\* CURRENCY, the configured default
DefaultCurrency == <<"C", "N", "Y">>

\* parse_amount_currency: None ([ok |-> FALSE]) or (amount, currency.upper())
ParseAmountCurrency(string) ==
    LET match == AmountTokenMatch(string) IN
    IF ~match.matched
    THEN [ok |-> FALSE, amount |-> <<>>, currency |-> <<>>]
    ELSE [ok |-> TRUE, amount |-> match.amount,
          currency |-> Upper(IF match.currency # <<>> THEN match.currency
                             ELSE DefaultCurrency)]

\* float(amount), in thousandths: the value of a signed decimal numeral
\* (digits after the third decimal are beyond the model's resolution).
RECURSIVE DigitsValue(_)
DigitsValue(ds) ==
    IF ds = <<>> THEN 0
    ELSE 10 * DigitsValue(SubSeq(ds, 1, Len(ds) - 1)) + DigitVal(ds[Len(ds)])

FloatOf(amount) ==
    LET s == IF amount[1] \in {"+", "-"} THEN 1 ELSE 0
        d1 == DigitRun(amount, s + 1)
        int == SubSeq(amount, s + 1, s + d1)
        frac == SubSeq(amount, s + d1 + 2, Len(amount))
        frac3 == SubSeq(frac \o <<"0", "0", "0">>, 1, 3)
        v == 1000 * DigitsValue(int) + DigitsValue(frac3)
    IN  IF amount[1] = "-" THEN -v ELSE v

(***************************************************************************)
(* get_leg_num and parse_message.  data is msg.split().                    *)
(***************************************************************************)
RECURSIVE GetLegNumFromAny(_, _)
GetLegNumFromAny(data, n) ==
    IF 2 * n + 1 < Len(data) - 1 THEN GetLegNumFromAny(data, n + 1) ELSE n

\* a loop that stops one position earlier
RECURSIVE GetLegNumFromShort(_, _)
GetLegNumFromShort(data, n) ==
    IF 2 * n + 1 < Len(data) - 2 /\ AmountTokenMatch(data[2 * n + 2]).matched
    THEN GetLegNumFromShort(data, n + 1)
    ELSE n

\* the while loop of get_leg_num, entered with n legs counted; data[2n+1]
\* of the code is data[2n+2] here
RECURSIVE GetLegNumFrom(_, _)
GetLegNumFrom(data, n) ==
    IF 2 * n + 1 < Len(data) - 1 /\ AmountTokenMatch(data[2 * n + 2]).matched
    THEN GetLegNumFrom(data, n + 1)
    ELSE n

GetLegNumPairs(data) == IF Len(data) = 0 THEN 0 ELSE (Len(data) - 1) \div 2

GetLegNum(data) == GetLegNumFrom(data, 0)

RECURSIVE ParseLegsDefaultCurrency(_, _, _, _)
ParseLegsDefaultCurrency(data, leg_num, i, acc) ==
    IF i >= leg_num THEN acc
    ELSE ParseLegsDefaultCurrency(data, leg_num, i + 1,
           [acc EXCEPT !.legs = Append(@,
                          [account |-> data[2 * i + 1],
                           amount |-> -FloatOf(ParseAmountCurrency(data[2 * i + 2]).amount),
                           currency |-> ParseAmountCurrency(data[2 * i + 2]).currency]),
                       !.sum = @ + FloatOf(ParseAmountCurrency(data[2 * i + 2]).amount)])

\* the for loop of parse_message from leg i on: acc = [ok, legs, sum, currency]
RECURSIVE ParseLegs(_, _, _, _)
ParseLegs(data, leg_num, i, acc) ==
    IF i >= leg_num \/ ~acc.ok THEN acc
    ELSE LET parsed == ParseAmountCurrency(data[2 * i + 2]) IN
         IF ~parsed.ok
         THEN [acc EXCEPT !.ok = FALSE, !.legs = <<>>]
         ELSE ParseLegs(data, leg_num, i + 1,
                [ok |-> TRUE,
                 legs |-> Append(acc.legs,
                            [account |-> data[2 * i + 1],
                             amount |-> -FloatOf(parsed.amount),
                             currency |-> parsed.currency]),
                 sum |-> acc.sum + FloatOf(parsed.amount),
                 currency |-> parsed.currency])

\* parse_message: (legs, note), or an exception: ValueError for an amount
\* that does not parse, IndexError when there is no token data[2 * leg_num]
ParseMessage(data) ==
    LET leg_num == GetLegNum(data)
        acc == ParseLegs(data, leg_num, 0,
                 [ok |-> TRUE, legs |-> <<>>, sum |-> 0, currency |-> DefaultCurrency])
    IN  IF ~acc.ok
        THEN [ok |-> FALSE, error |-> "Invalid amount format", legs |-> <<>>, note |-> <<>>]
        ELSE IF 2 * leg_num + 1 > Len(data)
        THEN [ok |-> FALSE, error |-> "list index out of range", legs |-> <<>>,
              note |-> <<>>]
        ELSE [ok |-> TRUE, error |-> "",
              legs |-> Append(acc.legs, [account |-> data[2 * leg_num + 1],
                                         amount |-> acc.sum,
                                         currency |-> acc.currency]),
              note |-> SubSeq(data, 2 * leg_num + 2, Len(data))]

\* msg.split(): the maximal runs of characters that are no whitespace
IsSpace(c) == c \in {" ", "\t", "\n"}

RECURSIVE SplitFrom(_, _, _, _)
SplitFrom(msg, i, word, words) ==
    LET closed == IF word = <<>> THEN words ELSE Append(words, word)
    IN  IF i > Len(msg) THEN closed
        ELSE IF IsSpace(msg[i]) THEN SplitFrom(msg, i + 1, <<>>, closed)
        ELSE SplitFrom(msg, i + 1, Append(word, msg[i]), words)

Split(msg) == SplitFrom(msg, 1, <<>>, <<>>)

\* a join that puts nothing between the words
RECURSIVE JoinBare(_)
JoinBare(words) ==
    IF words = <<>> THEN <<>> ELSE words[1] \o JoinBare(Tail(words))

\* ' '.join(words)
RECURSIVE Join(_)
Join(words) ==
    IF words = <<>> THEN <<>>
    ELSE IF Len(words) = 1 THEN words[1]
    ELSE words[1] \o <<" ">> \o Join(Tail(words))

\* parse_message(msg) on the text of a message: the note is one text
ParseMessageText(msg) ==
    [ParseMessage(Split(msg)) EXCEPT !.note = Join(@)]

(***************************************************************************)
(* get_account.  The pattern is '^.*' + base with every ':' replaced by    *)
(* '.*:.*' + '.*', matched ignoring case: the segments of base between its *)
(* colons must occur in the account in this order, each pair separated by  *)
(* a colon.  base is not escaped: '.' in it matches any character, and a   *)
(* parenthesis opens or closes a group.  Fragments are over letters,       *)
(* digits, '-', '.', ':', '(' and ')'.                                     *)
(***************************************************************************)
\* the nesting depth of the groups after the characters of base from i on,
\* entered with depth d; -1 once a ')' closes no group
RECURSIVE GroupDepth(_, _, _)
GroupDepth(base, i, d) ==
    IF d < 0 \/ i > Len(base) THEN d
    ELSE GroupDepth(base, i + 1,
                    IF base[i] = "(" THEN d + 1
                    ELSE IF base[i] = ")" THEN d - 1 ELSE d)

\* re.compile succeeds: every group is closed ('missing ), unterminated
\* subpattern' and 'unbalanced parenthesis' are re.error otherwise)
PatternCompiles(base) == GroupDepth(base, 1, 0) = 0

\* what the pattern has to find in an account: base without the
\* parentheses of its groups
Ungrouped(base) == SelectSeq(base, LAMBDA c : c \notin {"(", ")"})

\* the pieces of base between its colons
RECURSIVE SplitColon(_, _)
SplitColon(base, cur) ==
    IF base = <<>> THEN <<cur>>
    ELSE IF base[1] = ":" THEN <<cur>> \o SplitColon(Tail(base), <<>>)
    ELSE SplitColon(Tail(base), Append(cur, base[1]))

\* segment seg matches the account at positions i .. i + Len(seg) - 1
SegmentAt(seg, account, i) ==
    /\ i + Len(seg) - 1 <= Len(account)
    /\ \A k \in 1..Len(seg) :
          seg[k] = "." \/ UpperChar(seg[k]) = UpperChar(account[i + k - 1])

\* the segments from index j on can be matched in account[from ..]
RECURSIVE SegmentsMatch(_, _, _, _)
SegmentsMatch(segs, j, account, from) ==
    \E i \in from..(Len(account) + 1) :
        /\ SegmentAt(segs[j], account, i)
        /\ \/ j = Len(segs)
           \/ \E c \in (i + Len(segs[j]))..Len(account) :
                 /\ account[c] = ":"
                 /\ SegmentsMatch(segs, j + 1, account, c + 1)

PatternMatch(base, account) ==
    SegmentsMatch(SplitColon(Ungrouped(base), <<>>), 1, account, 1)

Todo == <<"T", "O", "D", "O">>

GetAccountFirst(base, chart) ==
    LET r == SelectSeq(chart, LAMBDA acc : PatternMatch(base, acc))
    IN  IF ~PatternCompiles(base) THEN [raised |-> TRUE, account |-> <<>>, flag |-> 0]
        ELSE IF Len(r) = 0 THEN [raised |-> FALSE, account |-> Todo, flag |-> 1]
        ELSE [raised |-> FALSE, account |-> r[1], flag |-> 0]

\* get_account over the chart in its iteration order (a sequence); raised
\* when re.compile raises re.error
GetAccount(base, chart) ==
    LET r == SelectSeq(chart, LAMBDA acc : PatternMatch(base, acc))
        n == Len(r)
    IN  IF ~PatternCompiles(base) THEN [raised |-> TRUE, account |-> <<>>, flag |-> 0]
        ELSE IF n = 0 THEN [raised |-> FALSE, account |-> Todo, flag |-> 1]
        ELSE IF n = 1 THEN [raised |-> FALSE, account |-> r[1], flag |-> 0]
        ELSE [raised |-> FALSE, account |-> r[1], flag |-> 1]

(***************************************************************************)
(* bean: rendering of the transaction block.                               *)
(***************************************************************************)
\* Decimal(float(_amount)).quantize(Decimal('0.00')), in hundredths, of an
\* amount in thousandths (ROUND_HALF_EVEN)
Quantize(amount) == RoundHalfEven(amount, 10)

\* the loop over the legs: the postings and the sum of the flags
RECURSIVE RenderLegs(_, _, _)
RenderLegs(legs, i, chart) ==
    IF i > Len(legs) THEN [flags |-> 0, postings |-> <<>>]
    ELSE LET got == GetAccount(legs[i].account, chart)
             rest == RenderLegs(legs, i + 1, chart)
         IN  [flags |-> got.flag + rest.flags,
              postings |-> << NL, [kind |-> "posting", account |-> got.account,
                                   amount |-> Quantize(legs[i].amount),
                                   currency |-> legs[i].currency] >>
                           \o rest.postings]

\* the loop over the legs ends with re.error raised by get_account
RenderRaises(legs, chart) ==
    \E i \in 1..Len(legs) : GetAccount(legs[i].account, chart).raised

\* A note is free text, and so it can spell the opening of a header line
\* itself.  The character EchoedHeader of a note word stands for the typed
\* words `<date of day 1> * "" "', closed up with what follows it.
EchoedHeader == "@"

EchoedDate == DateOf(1)

\* the last word of the note that opens with EchoedHeader, 0 without one
RECURSIVE LastEcho(_, _)
LastEcho(note, i) ==
    IF i = 0 THEN 0
    ELSE IF note[i] # <<>> /\ note[i][1] = EchoedHeader THEN i
    ELSE LastEcho(note, i - 1)

\* '<date> <flag_mark> "" "<note>"': the same characters are the same
\* pieces, so the line whose note spells a header ends with that header,
\* after the characters in front of it.
HeaderLine(date, flag_mark, note) ==
    LET k == LastEcho(note, Len(note))
    IN  IF k = 0
        THEN << [kind |-> "txn", date |-> date, flag |-> flag_mark, note |-> note] >>
        ELSE << [kind |-> "cut", date |-> date, flag |-> flag_mark,
                 note |-> SubSeq(note, 1, k - 1)],
                [kind |-> "txn", date |-> EchoedDate, flag |-> "*",
                 note |-> IF Len(note[k]) > 1 \/ k < Len(note)
                          THEN <<Tail(note[k])>> \o SubSeq(note, k + 1, Len(note))
                          ELSE <<>>] >>

\* '<date> <flag_mark> "" "<note>"<transactions>\n'
RenderTransaction(date, legs, note, chart) ==
    LET r == RenderLegs(legs, 1, chart)
        flag_mark == IF r.flags > 0 THEN "!" ELSE "*"
    IN  HeaderLine(date, flag_mark, note) \o r.postings \o <<NL>>

(***************************************************************************)
(* The chat handlers bean and revert_transaction.  Updates are handled one *)
(* at a time (the Application's default), so a handler starts only when    *)
(* no other handler is suspended; jobs run alongside.                      *)
(***************************************************************************)
EmptyMap == [k \in {} |-> <<>>]

IdleBean == [pc |-> "idle", text |-> <<>>]

\* open in mode 'w': the text replaces what the file held
WriteTransaction(file, text) == [exists |-> TRUE, content |-> text]

\* open(BEANCOUNT_OUTPUT, 'a+') and write: the file is created when missing
AppendTransaction(file, text) ==
    [exists |-> TRUE, content |-> (IF file.exists THEN file.content ELSE <<>>) \o text]

\* bean up to its await of reply_text: compile the message, render the
\* block and append it; a message that parse_message raises on is answered
\* with 'error, ...' and nothing else happens; an exception of get_account
\* is raised by bean itself, before the file is opened.
BeanWrite(data) ==
    /\ bean_call.pc = "idle"
    /\ posts' = posts + 1
    /\ \E parsed \in {ParseMessage(data)} :
         \/ /\ ~parsed.ok
            /\ op' = [name |-> "bean", id |-> 0, answer |-> "error", msg |-> data,
                      text |-> <<>>, error |-> parsed.error]
            /\ UNCHANGED <<ledger_exists, content, bean_call, last_write>>
         \/ /\ parsed.ok
            /\ RenderRaises(parsed.legs, accounts)
            /\ op' = [name |-> "bean", id |-> 0, answer |-> "raise", msg |-> data,
                      text |-> <<>>, error |-> "re.error"]
            /\ UNCHANGED <<ledger_exists, content, bean_call, last_write>>
         \/ /\ parsed.ok
            /\ ~RenderRaises(parsed.legs, accounts)
            /\ \E transactions \in {RenderTransaction(Today, parsed.legs, parsed.note,
                                                      accounts)} :
                 /\ ledger_exists' = AppendTransaction(File, transactions).exists
                 /\ content' = AppendTransaction(File, transactions).content
                 /\ bean_call' = [pc |-> "reply", text |-> transactions]
                 /\ last_write' = [kind |-> "bean", before |-> File,
                                   text |-> transactions]
                 /\ op' = [name |-> "bean", id |-> 0, answer |-> "written",
                           msg |-> data, text |-> transactions, error |-> ""]
    /\ UNCHANGED <<config, clock, last_processed, tick, pending_transactions,
                   next_message_id, accounts, balances,
                   bql_connection, last_errors, reverted, restarts, deletes>>

\* reply_text returns the message sent and bean records the block under
\* its id, or reply_text raises and bean ends there.
BeanReply ==
    /\ bean_call.pc = "reply"
    /\ bean_call' = IdleBean
    /\ \/ /\ pending_transactions' =
                [k \in DOMAIN pending_transactions \cup {next_message_id} |->
                    IF k = next_message_id THEN bean_call.text
                    ELSE pending_transactions[k]]
          /\ next_message_id' = next_message_id + 1
          /\ op' = [name |-> "bean_reply", id |-> next_message_id, answer |-> "sent"]
       \/ /\ UNCHANGED <<pending_transactions, next_message_id>>
          /\ op' = [name |-> "bean_reply", id |-> 0, answer |-> "raise"]
    /\ UNCHANGED <<config, clock, ledger_exists, content, last_processed, tick,
                   accounts, balances, bql_connection, last_errors, posts,
                   reverted, last_write, restarts, deletes>>

NothingToRevert == "Nothing to revert."
LedgerHasChanged == "Cannot revert: ledger has changed."
LedgerFileMissing == "Cannot revert: ledger file missing."
TransactionReverted == "Transaction reverted."

OpenReadWriteCreating(file) == [found |-> TRUE, content |-> file.content]

\* open(BEANCOUNT_OUTPUT, 'r+'): FileNotFoundError when the file is missing
OpenReadWrite(file) == [found |-> file.exists, content |-> file.content]

SuffixMatchesLength(text, transaction) == Len(transaction) <= Len(text)

\* content.endswith(transaction)
SuffixMatches(text, transaction) == EndsWith(text, transaction)

DropSuffixShort(text, transaction) ==
    SubSeq(text, 1, Len(text) - Len(transaction) + 1)

\* content[:-len(transaction)], written back after seek(0) and truncate()
DropSuffix(text, transaction) == SubSeq(text, 1, Len(text) - Len(transaction))

PopNothing(pending, message_id) == pending

\* pending_transactions.pop(message_id, None)
PopPending(pending, message_id) ==
    [k \in DOMAIN pending \ {message_id} |-> pending[k]]

\* revert_transaction for the Revert button under the message message_id
RevertTransaction(message_id) ==
    /\ bean_call.pc = "idle"
    /\ message_id \in 1..(next_message_id - 1)
    /\ IF message_id \notin DOMAIN pending_transactions
       THEN /\ op' = [name |-> "revert", id |-> message_id, answer |-> NothingToRevert]
            /\ UNCHANGED <<ledger_exists, content, pending_transactions, reverted,
                           last_write>>
       ELSE IF ~OpenReadWrite(File).found
       THEN /\ op' = [name |-> "revert", id |-> message_id,
                      answer |-> LedgerFileMissing]
            /\ UNCHANGED <<ledger_exists, content, pending_transactions, reverted,
                           last_write>>
       ELSE IF ~SuffixMatches(OpenReadWrite(File).content,
                              pending_transactions[message_id])
       THEN /\ op' = [name |-> "revert", id |-> message_id,
                      answer |-> LedgerHasChanged]
            /\ ledger_exists' = TRUE
            /\ UNCHANGED <<content, pending_transactions, reverted, last_write>>
       ELSE /\ content' = DropSuffix(OpenReadWrite(File).content,
                                     pending_transactions[message_id])
            /\ ledger_exists' = TRUE
            /\ pending_transactions' = PopPending(pending_transactions, message_id)
            /\ reverted' = reverted \cup {message_id}
            /\ last_write' = NoWrite
            /\ op' = [name |-> "revert", id |-> message_id,
                      answer |-> TransactionReverted]
    /\ UNCHANGED <<config, clock, last_processed, tick, next_message_id, bean_call,
                   accounts, balances,
                   bql_connection, last_errors, posts, restarts, deletes>>

(***************************************************************************)
(* The environment: the calendar, the process and the file system.         *)
(***************************************************************************)
AdvanceDay ==
    /\ clock < MaxDay
    /\ clock' = clock + 1
    /\ op' = [name |-> "advance_day", id |-> 0, answer |-> ""]
    /\ UNCHANGED <<config, ledger_exists, content, last_processed, tick,
                   pending_transactions, next_message_id, bean_call, accounts, balances,
                   bql_connection, last_errors, posts, reverted, last_write, restarts, deletes>>

(***************************************************************************)
(* build_account_balances and format_inventory.  A number is a count of    *)
(* hundredths; an Inventory holds, per currency, a number that is not      *)
(* zero; the entries are the directives load_file returns.                 *)
(***************************************************************************)
Amount(number, currency) == [present |-> TRUE, number |-> number, currency |-> currency]
\* posting.units is None
NoUnits == [present |-> FALSE, number |-> 0, currency |-> <<>>]
Posting(account, units) == [account |-> account, units |-> units]
Transaction(postings) == [type |-> "Transaction", account |-> <<>>, postings |-> postings]
Open(account) == [type |-> "Open", account |-> account, postings |-> <<>>]
Close(account) == [type |-> "Close", account |-> account, postings |-> <<>>]

EmptyInventory == [c \in {} |-> 0]

\* an add_amount that keeps the number of the last posting
AddAmountLast(inventory, units) ==
    [k \in DOMAIN inventory \cup {units.currency} |->
        IF k = units.currency THEN units.number ELSE inventory[k]]

\* Inventory.add_amount(units): the position of the currency is augmented or
\* reduced, and removed when it becomes zero; a zero amount creates none.
AddAmount(inventory, units) ==
    IF units.currency \in DOMAIN inventory
    THEN LET number == inventory[units.currency] + units.number
         IN  IF number = 0
             THEN [k \in DOMAIN inventory \ {units.currency} |-> inventory[k]]
             ELSE [inventory EXCEPT ![units.currency] = number]
    ELSE IF units.number = 0 THEN inventory
         ELSE [k \in DOMAIN inventory \cup {units.currency} |->
                  IF k = units.currency THEN units.number ELSE inventory[k]]

\* the loop over entry.postings
RECURSIVE AddPostings(_, _, _)
AddPostings(totals, postings, i) ==
    IF i > Len(postings) THEN totals
    ELSE IF ~postings[i].units.present THEN AddPostings(totals, postings, i + 1)
    ELSE LET account == postings[i].account
             held == IF account \in DOMAIN totals THEN totals[account]
                     ELSE EmptyInventory
         IN  AddPostings([k \in DOMAIN totals \cup {account} |->
                             IF k = account THEN AddAmount(held, postings[i].units)
                             ELSE totals[k]],
                         postings, i + 1)

\* the loop over the entries
RECURSIVE BuildAccountBalancesFrom(_, _, _)
BuildAccountBalancesFrom(entries, i, totals) ==
    IF i > Len(entries) THEN totals
    ELSE BuildAccountBalancesFrom(entries, i + 1,
            IF entries[i].type = "Transaction"
            THEN AddPostings(totals, entries[i].postings, 1)
            ELSE totals)

BuildAccountBalances(entries) == BuildAccountBalancesFrom(entries, 1, EmptyMap)

\* balances.get(account)
NoInventory == [found |-> FALSE, inventory |-> EmptyInventory]
BalancesGet(totals, account) ==
    IF account \in DOMAIN totals
    THEN [found |-> TRUE, inventory |-> totals[account]]
    ELSE NoInventory

\* the order of str on currency codes (capital letters)
CharRank(c) == CHOOSE i \in 1..Len(UpperLetters) : UpperLetters[i] = c
RECURSIVE StrLess(_, _)
StrLess(s, t) ==
    IF t = <<>> THEN FALSE
    ELSE IF s = <<>> THEN TRUE
    ELSE IF s[1] = t[1] THEN StrLess(Tail(s), Tail(t))
    ELSE CharRank(s[1]) < CharRank(t[1])

\* sorted(..., key=lambda position: position.units.currency)
RECURSIVE SortedCurrencies(_)
SortedCurrencies(currencies) ==
    IF currencies = {} THEN <<>>
    ELSE LET first == CHOOSE c \in currencies :
                          \A d \in currencies \ {c} : StrLess(c, d)
         IN  <<first>> \o SortedCurrencies(currencies \ {first})

RECURSIVE NatDigits(_)
NatDigits(n) ==
    IF n < 10 THEN <<DigitChars[n + 1]>>
    ELSE NatDigits(n \div 10) \o <<DigitChars[(n % 10) + 1]>>

\* format(amount.number.normalize(), 'f'): no exponent, no trailing zeros
FormatNumber(number) ==
    LET m == IF number < 0 THEN -number ELSE number
        frac == m % 100
        fraction == IF frac = 0 THEN <<>>
                    ELSE IF frac % 10 = 0 THEN <<".", DigitChars[(frac \div 10) + 1]>>
                    ELSE <<".", DigitChars[(frac \div 10) + 1],
                           DigitChars[(frac % 10) + 1]>>
    IN  (IF number < 0 THEN <<"-">> ELSE <<>>) \o NatDigits(m \div 100) \o fraction

\* ', '.join(formatted_amounts)
RECURSIVE JoinAmounts(_, _, _)
JoinAmounts(inventory, order, i) ==
    IF i > Len(order) THEN <<>>
    ELSE (IF i > 1 THEN <<",", " ">> ELSE <<>>)
         \o FormatNumber(inventory[order[i]]) \o <<" ">> \o order[i]
         \o JoinAmounts(inventory, order, i + 1)

FormatInventory(got) ==
    IF ~got.found \/ DOMAIN got.inventory = {} THEN <<"0">>
    ELSE JoinAmounts(got.inventory, SortedCurrencies(DOMAIN got.inventory), 1)

\* The chart of accounts AccountsData.reload reads from the main ledger
\* file; a set of str is iterated in an order fixed per process.
ChartChecking == <<"A", ":", "c", ":", "k">>
ChartAssetsCup == <<"A", ":", "c", "u", "p">>
ChartIncomeCup == <<"I", ":", "c", "u", "p">>
ChartExpenses == <<"E", ":", "x">>

ChartOrders ==
    { <<ChartChecking, ChartAssetsCup, ChartIncomeCup, ChartExpenses>>,
      <<ChartExpenses, ChartIncomeCup, ChartAssetsCup, ChartChecking>> }

(***************************************************************************)
(* AccountsData.reload and the handlers reload_ledger and bal.             *)
(***************************************************************************)
\* load_file(BEANCOUNT_ROOT): the entries and the errors the loader returns
\* for the main ledger as it is then, or an exception
Loaded(entries, errors) == [raised |-> FALSE, entries |-> entries, errors |-> errors]
LoadRaises == [raised |-> TRUE, entries |-> <<>>, errors |-> <<>>]

\* the loop over the entries: an Open adds its account, a Close discards it
RECURSIVE OpenAccountsFrom(_, _, _)
OpenAccountsFrom(entries, i, chart) ==
    IF i > Len(entries) THEN chart
    ELSE OpenAccountsFrom(entries, i + 1,
            IF entries[i].type = "Open" THEN chart \cup {entries[i].account}
            ELSE IF entries[i].type = "Close" THEN chart \ {entries[i].account}
            ELSE chart)

OpenAccounts(entries) == OpenAccountsFrom(entries, 1, {})

\* the orders a set of str can be iterated in
Orders(S) == { s \in [1..Cardinality(S) -> S] : \A a \in S : \E i \in DOMAIN s : s[i] = a }

\* a Connection attached to the entries, and None
Connected(entries) == [attached |-> TRUE, entries |-> entries]
NoConnection == [attached |-> FALSE, entries |-> <<>>]

\* build_bql_connection: an exception of Connection() or attach is logged
\* and None is returned
BuildBqlConnection(entries, attaches) ==
    IF attaches THEN Connected(entries) ELSE NoConnection

\* the main ledger of the specifications that do not reload: it opens the
\* accounts of the chart and holds no transaction
RootLedger == << Open(ChartChecking), Open(ChartAssetsCup), Open(ChartIncomeCup),
                 Open(ChartExpenses) >>

\* The process is restarted: everything held in memory is lost
\* (AutoBalanceManager.__post_init__, chat_data without persistence).
Restart ==
    /\ restarts < MaxRestarts
    /\ restarts' = restarts + 1
    /\ last_processed' = {}
    /\ tick' = [t \in Ticks |-> IdleTick]
    /\ pending_transactions' = EmptyMap
    /\ bean_call' = IdleBean
    /\ accounts' \in ChartOrders
    /\ balances' = BuildAccountBalances(RootLedger)
    /\ \E attaches \in BOOLEAN :
         bql_connection' = BuildBqlConnection(RootLedger, attaches)
    /\ last_errors' = <<>>
    /\ op' = [name |-> "restart", id |-> 0, answer |-> ""]
    /\ UNCHANGED <<config, clock, ledger_exists, content, next_message_id, posts,
                   reverted, last_write, deletes>>

\* The ledger file is removed from outside.
DeleteLedger ==
    /\ ledger_exists
    /\ deletes < MaxDeletes
    /\ deletes' = deletes + 1
    /\ ledger_exists' = FALSE
    /\ content' = <<>>
    /\ last_write' = NoWrite
    /\ op' = [name |-> "delete_ledger", id |-> 0, answer |-> ""]
    /\ UNCHANGED <<config, clock, last_processed, tick, pending_transactions,
                   next_message_id, bean_call, accounts, balances,
                   bql_connection, last_errors, posts, reverted, restarts>>

(***************************************************************************)
(* Initial states: a configuration and a ledger file as the user left it.  *)
(***************************************************************************)
Comment == RawText(<<";">>)

InitialFiles ==
    { [exists |-> FALSE, content |-> <<>>],
      [exists |-> TRUE, content |-> <<Comment, NL>>],
      [exists |-> TRUE, content |-> <<Comment>>] }

InitWith(configs, files) ==
    /\ config \in configs
    /\ clock = 1
    /\ \E f \in files : ledger_exists = f.exists /\ content = f.content
    /\ last_processed = {}
    /\ tick = [t \in Ticks |-> IdleTick]
    /\ pending_transactions = EmptyMap
    /\ next_message_id = 1
    /\ bean_call = IdleBean
    /\ accounts \in ChartOrders
    /\ balances = BuildAccountBalances(RootLedger)
    /\ bql_connection = BuildBqlConnection(RootLedger, TRUE)
    /\ last_errors = <<>>
    /\ posts = 0
    /\ reverted = {}
    /\ last_write = NoWrite
    /\ restarts = 0
    /\ deletes = 0
    /\ op = [name |-> "init", id |-> 0, answer |-> ""]

\* The messages the chat sends in the specifications of the ledger file.
MsgPay == << <<"x">>, <<"4", ".", "5">>, <<"c", ":", "k">> >>
MsgSplit == << <<"c", "u", "p">>, <<"0", ".", "0", "0", "4">>, <<"x">>,
               <<"0", ".", "0", "0", "4">>, <<"k">>, <<"n">> >>
MsgBlank == << >>

\* MsgPay with a note that ends with the header line of MsgPay's own block
MsgEcho == MsgPay \o << <<"a">>, <<EchoedHeader>> >>

LedgerMessages == {MsgPay, MsgSplit}

\* The configuration of the specifications of the ledger file: one account
\* with a coroutine fetcher.
ConfigLedger ==
    << [dates |-> {DayOfMonth(15)},
        accounts |-> << Account(AcctBank, "async", 0, 2) >>] >>

Sched ==
    \/ \E t \in Ticks : TickStart(t)
    \/ \E t \in Ticks : TickResume(t)

\* No call of process_due_entries starts while another one is suspended.
SchedSeq ==
    \/ \E t \in Ticks : (\A u \in Ticks : tick[u].pc = "idle") /\ TickStart(t)
    \/ \E t \in Ticks : TickResume(t)

Chat ==
    \/ posts < MaxMsgs /\ \E data \in LedgerMessages : BeanWrite(data)
    \/ BeanReply
    \/ \E message_id \in 1..MaxMsgs : RevertTransaction(message_id)

(***************************************************************************)
(* Specifications.  Spec is the whole program.  SpecSched and SpecSchedSeq *)
(* are the scheduler under every configuration, with overlapping and with  *)
(* non-overlapping calls; SpecLedger is the chat handlers with a scheduler *)
(* of one account on the same file; SpecCompile is bean on one message out *)
(* of every message over a vocabulary; SpecPost is a chat that only posts. *)
(***************************************************************************)
Init == InitWith(ConfigSet \cup {ConfigLedger}, InitialFiles)

Next == Sched \/ Chat \/ AdvanceDay \/ Restart \/ DeleteLedger

Spec == Init /\ [][Next]_vars

InitSched == InitWith(ConfigSet, InitialFiles)

NextSched == Sched \/ AdvanceDay \/ Restart \/ DeleteLedger

SpecSched == InitSched /\ [][NextSched]_vars

NextSchedSeq == SchedSeq \/ AdvanceDay \/ Restart \/ DeleteLedger

SpecSchedSeq == InitSched /\ [][NextSchedSeq]_vars

\* The scheduler on dates that match some entry, one entry or none, and
\* without entries.
InitDates == InitWith(ConfigSet \cup {ConfigLedger, ConfigDates, ConfigEmpty}, InitialFiles)

NextDates ==
    \/ SchedSeq
    \/ \E t \in Ticks : TickEmpty(t)
    \/ AdvanceDay

SpecDates == InitDates /\ [][NextDates]_vars

InitLedger == InitWith({ConfigLedger}, InitialFiles)

NextLedger == Chat \/ SchedSeq \/ DeleteLedger

SpecLedger == InitLedger /\ [][NextLedger]_vars

\* Tokens: amounts with and without a currency code and a sign, and account
\* fragments that match one account of the chart, several, and that open a
\* group without closing it.
Vocabulary ==
    { <<"0", ".", "0", "0", "4">>, <<"-", "3", ".", "3", "7">>,
      <<"4", ".", "5", "s", "g", "d">>, <<"x">>, <<"c", "u", "p">>,
      <<"k", "(">> }

CompileMessages == UNION {[1..n -> Vocabulary] : n \in 0..MaxTokens}

StartFile == {[exists |-> TRUE, content |-> <<Comment, NL>>]}

InitCompile == InitWith({ConfigLedger}, StartFile)

\* The chat alone on one ledger file, with a message whose note spells a
\* header line.
ChatMessages == {MsgPay, MsgSplit, MsgEcho}

NextChat ==
    \/ posts < MaxMsgs /\ \E data \in ChatMessages : BeanWrite(data)
    \/ BeanReply
    \/ \E message_id \in 1..MaxMsgs : RevertTransaction(message_id)

SpecChat == InitCompile /\ [][NextChat]_vars

\* The chat of SpecChat and the scheduler of one account on one ledger
\* file, which may be there or not and may be removed.
NextShared == NextChat \/ SchedSeq \/ DeleteLedger

SpecShared == InitLedger /\ [][NextShared]_vars

NextCompile ==
    \/ posts = 0 /\ \E data \in CompileMessages : BeanWrite(data)
    \/ BeanReply

SpecCompile == InitCompile /\ [][NextCompile]_vars

\* The capacity the specification gives pending_transactions.
PendingCapacity == 50

NextPost ==
    \/ posts <= PendingCapacity /\ BeanWrite(MsgPay)
    \/ BeanReply

SpecPost == InitCompile /\ [][NextPost]_vars

(***************************************************************************)
(* load_auto_balance_config: the 'auto_balance' section of the bot's       *)
(* configuration, as the keys it gives and their values.  A raw entry is   *)
(* given with its date matchers and its accounts already read.             *)
(***************************************************************************)
DEFAULT_INTERVAL_SECONDS == 86400

\* the loop over entries_data: an entry that is no mapping, has no date
\* matcher or has no account with a name is passed over
RECURSIVE LoadEntries(_, _)
LoadEntries(entries_data, i) ==
    IF i > Len(entries_data) THEN <<>>
    ELSE LET raw_entry == entries_data[i]
             named == SelectSeq(raw_entry.accounts, LAMBDA x : x.account # <<>>)
         IN  (IF raw_entry.mapping /\ raw_entry.dates # {} /\ named # <<>>
              THEN << [dates |-> raw_entry.dates, accounts |-> named] >>
              ELSE <<>>)
             \o LoadEntries(entries_data, i + 1)

\* str.strip of a text of spaces and other characters
RECURSIVE Strip(_)
Strip(text) ==
    IF text = <<>> THEN text
    ELSE IF text[1] = " " THEN Strip(Tail(text))
    ELSE IF text[Len(text)] = " " THEN Strip(SubSeq(text, 1, Len(text) - 1))
    ELSE text

\* the fields of AutoBalanceConfig: entries, timezone, interval_seconds and
\* ledger (None is <<>>)
LoadAutoBalanceConfig(section) ==
    [entries |-> LoadEntries(IF "entries" \in section.given THEN section.entries
                             ELSE <<>>, 1),
     timezone |-> IF "timezone" \in section.given /\ section.timezone = "UTC"
                  THEN section.timezone ELSE "",
     interval_seconds |-> IF "interval_seconds" \in section.given
                          THEN section.interval_seconds
                          ELSE DEFAULT_INTERVAL_SECONDS,
     ledger |-> IF "ledger" \in section.given THEN Strip(section.ledger) ELSE <<>>]

(***************************************************************************)
(* render_bql_query: the query text of a configured alias.                 *)
(***************************************************************************)
BQL_ARGUMENT_TOKEN == <<"[", "a", "r", "g", "s", "]">>

\* the token is read at position i of the text
TokenAt(text, token, i) ==
    /\ i + Len(token) - 1 <= Len(text)
    /\ SubSeq(text, i, i + Len(token) - 1) = token

\* token in text
Contains(text, token) == \E i \in 1..Len(text) : TokenAt(text, token, i)

\* text.replace(token, by): every occurrence, from the left, without rescan
RECURSIVE Replace(_, _, _, _)
Replace(text, token, by, i) ==
    IF i > Len(text) THEN <<>>
    ELSE IF TokenAt(text, token, i)
    THEN by \o Replace(text, token, by, i + Len(token))
    ELSE <<text[i]>> \o Replace(text, token, by, i + 1)

\* a sanitizer that only wraps the argument in quotes
SanitizeBqlArgumentBare(argument) == <<"'">> \o argument \o <<"'">>

\* sanitize_bql_argument: every single quote doubled, the whole in quotes
SanitizeBqlArgument(argument) ==
    <<"'">> \o Replace(argument, <<"'">>, <<"'", "'">>, 1) \o <<"'">>

\* render_bql_query(definition, user_arguments), definition.sql being sql
RenderBqlQuery(sql, user_arguments) ==
    IF Contains(sql, BQL_ARGUMENT_TOKEN)
    THEN IF user_arguments = <<>>
         THEN [raised |-> TRUE, error |-> "This query requires an argument.",
               text |-> <<>>]
         ELSE [raised |-> FALSE, error |-> "",
               text |-> Replace(sql, BQL_ARGUMENT_TOKEN,
                                SanitizeBqlArgument(user_arguments), 1)]
    ELSE IF user_arguments # <<>>
         THEN [raised |-> TRUE, error |-> "This query does not take any arguments.",
               text |-> <<>>]
         ELSE [raised |-> FALSE, error |-> "", text |-> sql]

(***************************************************************************)
(* The functions of the compile pipeline, called on their own: one call of *)
(* one function on an input of a bounded set, its result kept in op.       *)
(***************************************************************************)
MaxChars == 4
MaxFragment == 3
MaxWords == 7
MaxEntries == 3
MaxArgument == 3
MaxSpaced == 5

\* every sequence over the alphabet of a length up to n
Strings(alphabet, n) == UNION {[1..k -> alphabet] : k \in 0..n}

\* tokens handed to parse_amount_currency
TokenAlphabet == {"-", "+", "4", ".", "s", "G"}
TokenStrings == Strings(TokenAlphabet, MaxChars)

\* fragments handed to get_account
FragmentAlphabet == {"c", "K", "x", ":", ".", "(", ")"}
Fragments == Strings(FragmentAlphabet, MaxFragment)

\* messages (msg.split()) handed to get_leg_num and parse_message: words
\* that are amounts, with a sign and a currency code, and words that are not
Words == { <<"4", ".", "5">>, <<"-", "1", ".", "0", "s", "g", "d">>, <<"i", "n", ":", "c", "u", "p">> }

\* '2739 4.5 in:cup 0.5 9423 1.0 5587 <note>' (test_bot.py, data_leg_num);
\* the note is a word that is no amount
MsgThreeLegs ==
    << <<"2", "7", "3", "9">>, <<"4", ".", "5">>, <<"i", "n", ":", "c", "u", "p">>,
       <<"0", ".", "5">>, <<"9", "4", "2", "3">>, <<"1", ".", "0">>,
       <<"5", "5", "8", "7">>, <<"n", "o", "t", "e">> >>

WordMessages == Strings(Words, MaxWords) \cup {MsgThreeLegs}

\* entries handed to build_account_balances: the transactions of the
\* ledgers of test_bot.py (a salary, a dinner, a bonus in a second currency
\* whose other posting has no units yet), one that empties an account and
\* posts a fraction, and a directive that is no transaction
USD == <<"U", "S", "D">>
CNY == <<"C", "N", "Y">>
Salary == Transaction(<< Posting(ChartAssetsCup, Amount(10000, USD)),
                         Posting(ChartIncomeCup, Amount(-10000, USD)) >>)
Dinner == Transaction(<< Posting(ChartExpenses, Amount(3000, USD)),
                         Posting(ChartAssetsCup, Amount(-3000, USD)) >>)
Bonus == Transaction(<< Posting(ChartAssetsCup, Amount(20000, CNY)),
                        Posting(ChartIncomeCup, NoUnits) >>)
Refund == Transaction(<< Posting(ChartAssetsCup, Amount(-7000, USD)),
                         Posting(ChartExpenses, Amount(50, USD)) >>)
LedgerEntries == {Open(ChartAssetsCup), Salary, Dinner, Bonus, Refund}
Ledgers == Strings(LedgerEntries, MaxEntries)

\* the accounts whose balance is asked for
QueriedAccounts == {ChartChecking, ChartAssetsCup, ChartIncomeCup, ChartExpenses}

\* queries handed to render_bql_query: 'a~[args]' ('account ~ [args]' of
\* test_bot.py), one without the placeholder, one that names it twice and
\* one that stops short of it; arguments with and without single quotes
Queries ==
    { <<"a", "~">> \o BQL_ARGUMENT_TOKEN,
      <<"s", "*">>,
      BQL_ARGUMENT_TOKEN \o <<"=">> \o BQL_ARGUMENT_TOKEN \o <<";">>,
      <<"[", "a", "r", "g", "s">> }
Arguments == Strings({"c", "'", "]"}, MaxArgument)

\* sections handed to load_auto_balance_config: every choice of the keys
\* runtime, interval_seconds, ledger, timezone and entries, the entries
\* being those of test_bot.py's configuration (day 5, one account) with or
\* without an entry that is no mapping and one whose account has no name
RawEntries ==
    { << [mapping |-> TRUE, dates |-> {DayOfMonth(5)},
          accounts |-> << Account(AcctCash, "", 0, 2) >>] >>,
      << [mapping |-> FALSE, dates |-> {}, accounts |-> <<>>],
         [mapping |-> TRUE, dates |-> {DayOfMonth(5)},
          accounts |-> << Account(<<>>, "", 0, 2), Account(AcctCash, "", 0, 2) >>],
         [mapping |-> TRUE, dates |-> {}, accounts |-> << Account(AcctBank, "", 0, 2) >>] >> }

Sections ==
    { [given |-> given, runtime |-> <<"0", "5", ":", "4", "5">>,
       interval_seconds |-> 3600, ledger |-> ledger, timezone |-> timezone,
       entries |-> entries] :
         given \in SUBSET {"runtime", "interval_seconds", "ledger", "timezone", "entries"},
         ledger \in {<<"l">>, <<" ">>}, timezone \in {"UTC", "nowhere"},
         entries \in RawEntries }

\* texts handed to parse_message: words that are and are not amounts, with
\* one space or a tab and a space between two words, with and without a
\* space before the first and after the last
SpacedWords == { <<"x", "y">>, <<"4", ".", "5">> }
Gaps == { <<" ">>, <<"\t", " ">> }

RECURSIVE Assemble(_, _, _)
Assemble(words, gaps, i) ==
    IF i > Len(words) THEN <<>>
    ELSE words[i] \o (IF i < Len(words) THEN gaps[i] ELSE <<>>)
         \o Assemble(words, gaps, i + 1)

Texts ==
    UNION { { (IF lead THEN <<" ">> ELSE <<>>) \o Assemble(words, gaps, 1)
              \o (IF trail THEN <<" ">> ELSE <<>>) :
                words \in [1..n -> SpacedWords], gaps \in [1..(n - 1) -> Gaps],
                lead \in BOOLEAN, trail \in BOOLEAN } : n \in 0..MaxSpaced }

\* what a call leaves alone: everything but op
frame == <<config, clock, ledger_exists, content, last_processed, tick,
           pending_transactions, next_message_id, bean_call, accounts, balances,
                   bql_connection, last_errors, posts, reverted, last_write, restarts, deletes>>

Returned(name, input, result) ==
    [name |-> name, id |-> 0, answer |-> "", input |-> input, result |-> result]

ParseAmountCurrencyCall(string) ==
    /\ op.name = "init"
    /\ op' = Returned("parse_amount_currency", string, ParseAmountCurrency(string))
    /\ UNCHANGED frame

GetAccountCall(base) ==
    /\ op.name = "init"
    /\ op' = Returned("get_account", base, GetAccount(base, accounts))
    /\ UNCHANGED frame

GetLegNumCall(data) ==
    /\ op.name = "init"
    /\ op' = Returned("get_leg_num", data, GetLegNum(data))
    /\ UNCHANGED frame

ParseMessageCall(data) ==
    /\ op.name = "init"
    /\ op' = Returned("parse_message", data, ParseMessage(data))
    /\ UNCHANGED frame

\* build_account_balances(entries), then format_inventory(balances.get(a))
\* for every account a that can be asked for
BuildAccountBalancesCall(entries) ==
    /\ op.name = "init"
    /\ \E built \in {BuildAccountBalances(entries)} :
         op' = Returned("build_account_balances", entries,
                        [balances |-> built,
                         text |-> [a \in QueriedAccounts |->
                                      FormatInventory(BalancesGet(built, a))]])
    /\ UNCHANGED frame

RenderBqlQueryCall(sql, user_arguments) ==
    /\ op.name = "init"
    /\ op' = Returned("render_bql_query", [sql |-> sql, user_arguments |-> user_arguments],
                      RenderBqlQuery(sql, user_arguments))
    /\ UNCHANGED frame

LoadAutoBalanceConfigCall(section) ==
    /\ op.name = "init"
    /\ op' = Returned("load_auto_balance_config", section, LoadAutoBalanceConfig(section))
    /\ UNCHANGED frame

ParseMessageTextCall(msg) ==
    /\ op.name = "init"
    /\ op' = Returned("parse_message(msg)", msg, ParseMessageText(msg))
    /\ UNCHANGED frame

\* one call, on the state as constructed
NextCalls ==
    \/ op.name = "init" /\ \E string \in TokenStrings : ParseAmountCurrencyCall(string)
    \/ op.name = "init" /\ \E base \in Fragments : GetAccountCall(base)
    \/ op.name = "init" /\ \E data \in WordMessages : GetLegNumCall(data)
    \/ op.name = "init" /\ \E data \in WordMessages : ParseMessageCall(data)
    \/ op.name = "init" /\ \E entries \in Ledgers : BuildAccountBalancesCall(entries)
    \/ op.name = "init" /\ \E sql \in Queries, user_arguments \in Arguments :
                                RenderBqlQueryCall(sql, user_arguments)
    \/ op.name = "init" /\ \E section \in Sections : LoadAutoBalanceConfigCall(section)
    \/ op.name = "init" /\ \E msg \in Texts : ParseMessageTextCall(msg)

SpecCalls == InitCompile /\ [][NextCalls]_vars

(***************************************************************************)
(* The session state under /reload and /bal: the main ledger is rewritten  *)
(* by its owner between reloads.                                           *)
(***************************************************************************)
LedgerSalary == << Open(ChartAssetsCup), Open(ChartExpenses), Open(ChartIncomeCup),
                   Salary, Dinner >>
LedgerBonus == << Open(ChartAssetsCup), Open(ChartChecking), Close(ChartChecking),
                  Open(ChartIncomeCup), Bonus >>
LedgerEmpty == << >>

\* what load_file can answer
Loads ==
    {LoadRaises}
    \cup { Loaded(entries, errors) :
             entries \in {RootLedger, LedgerSalary, LedgerBonus, LedgerEmpty},
             errors \in {<<>>, <<"error">>} }

\* ' '.join(context.args).strip() of the /bal commands sent
BalArguments == { <<>>, <<"c", "u", "p">>, <<"x">>, <<"k", "(">>, <<"z">> }

\* reload_ledger: accounts_data.reload() under try; the reply tells a
\* failure from a reload.  reload assigns accounts, balances, the
\* connection and the errors one after the other, with no await between.
ReloadLedger(load, attaches) ==
    /\ \/ /\ load.raised
          /\ UNCHANGED <<accounts, balances, bql_connection, last_errors>>
          /\ op' = [name |-> "reload_ledger", id |-> 0, answer |-> "failed",
                    load |-> load, attaches |-> FALSE]
       \/ /\ ~load.raised
          /\ accounts' \in Orders(OpenAccounts(load.entries))
          /\ balances' = BuildAccountBalances(load.entries)
          /\ bql_connection' = BuildBqlConnection(load.entries, attaches)
          /\ last_errors' = load.errors
          /\ op' = [name |-> "reload_ledger", id |-> 0, answer |-> "reloaded",
                    load |-> load, attaches |-> attaches]
    /\ UNCHANGED <<config, clock, ledger_exists, content, last_processed, tick,
                   pending_transactions, next_message_id, bean_call, posts,
                   reverted, last_write, restarts, deletes>>

\* bal: the balance of the account the argument matches
Bal(argument) ==
    /\ \E got \in {GetAccount(argument, accounts)} :
         \/ /\ argument = <<>>
            /\ op' = [name |-> "bal", id |-> 0, answer |-> "account is required",
                      argument |-> argument, account |-> <<>>, text |-> <<>>]
         \/ /\ argument # <<>>
            /\ got.raised
            /\ op' = [name |-> "bal", id |-> 0, answer |-> "raise",
                      argument |-> argument, account |-> <<>>, text |-> <<>>]
         \/ /\ argument # <<>>
            /\ ~got.raised
            /\ got.account = Todo
            /\ op' = [name |-> "bal", id |-> 0, answer |-> "no account matched",
                      argument |-> argument, account |-> <<>>, text |-> <<>>]
         \/ /\ argument # <<>>
            /\ ~got.raised
            /\ got.account # Todo
            /\ op' = [name |-> "bal", id |-> 0,
                      answer |-> IF got.flag > 0 THEN "first of several" ELSE "balance",
                      argument |-> argument, account |-> got.account,
                      text |-> FormatInventory(BalancesGet(balances, got.account))]
    /\ UNCHANGED frame

NextReload ==
    \/ \E load \in Loads, attaches \in BOOLEAN : ReloadLedger(load, attaches)
    \/ \E argument \in BalArguments : Bal(argument)

SpecReload == InitCompile /\ [][NextReload]_vars

(***************************************************************************)
(* Properties of the auto-balance call.                                    *)
(***************************************************************************)
Dates == {DateOf(i) : i \in 1..MaxDay}

ConfiguredNames ==
    UNION {{config[e].accounts[a].account : a \in 1..Len(config[e].accounts)} :
             e \in 1..Len(config)}

TickOps == {"tick_return", "tick_await"}

\* The due positions of the date of the call op reports, and their names.
DueOf(o) == DuePositions(config, o.today)

DueNames(today) ==
    {AccountAt(config, pos).account : pos \in Range(DuePositions(config, today))}

AddedPositions(additions) == {additions[k].pos : k \in 1..Len(additions)}

AddedNames(additions) ==
    {AccountAt(config, additions[k].pos).account : k \in 1..Len(additions)}

RECURSIVE AddedText(_, _)
AddedText(additions, from) ==
    IF from > Len(additions) THEN <<>>
    ELSE additions[from].line \o AddedText(additions, from + 1)

Occurrences(s, x) == Cardinality({k \in 1..Len(s) : s[k] = x})

\* C1: however the calls of the two jobs overlap, the ledger holds at most
\* one balance line for a configured account and date.
C1_OverlapAtMostOnce ==
    \A d \in Dates : \A a \in ConfiguredNames :
        Cardinality(BalanceLines(content, d, a)) <= 1

\* C2: of two calls for the same date with no failure, the first, which
\* finds nothing recorded for the date, returns one addition per due
\* account, and one that finds every due account recorded returns no
\* addition and leaves the ledger as it is.
C2_TwiceAppendsOnce ==
    [][(op'.name = "tick_return" /\ ~op'.resumed /\ op'.errors = <<>>)
        => /\ ( /\ \A a \in ConfiguredNames :
                      /\ <<a, op'.today>> \notin last_processed
                      /\ BalanceLines(content, op'.today, a) = {}
                => /\ AddedNames(op'.additions) = DueNames(op'.today)
                   /\ Len(op'.additions) = Cardinality(DueNames(op'.today)) )
           /\ ( (\A a \in DueNames(op'.today) : <<a, op'.today>> \in last_processed)
                => /\ op'.additions = <<>>
                   /\ content' = content
                   /\ ledger_exists' = ledger_exists )]_vars

\* C3: with calls that do not overlap, before and after restarts that lose
\* the record of what was processed, the ledger never holds two balance
\* lines for an account and date, and a call that finds the line of a due
\* account in the file passes over it: no error, no addition, no new line.
C3_NoSecondLine ==
    \A d \in Dates : \A a \in ConfiguredNames \cup {AcctBank} :
        Cardinality(BalanceLines(content, d, a)) < 2

C3_PassesOverExisting ==
    op'.name \in TickOps
    => \A k \in 1..Len(DueOf(op')) :
          LET pos == DueOf(op')[k]
              a == AccountAt(config, pos).account
              first == IF op'.resumed THEN tick[op'.task].idx + 1 ELSE 1
              last == IF op'.name = "tick_await" THEN tick'[op'.task].idx - 1
                      ELSE Len(DueOf(op'))
          IN  ( /\ first <= k /\ k <= last
                /\ ledger_exists
                /\ BalanceLines(content, op'.today, a) # {} )
              => /\ pos \in Range(op'.skipped) \cup Range(op'.scanned)
                 /\ pos \notin Range(op'.errors)
                 /\ pos \notin AddedPositions(op'.additions)
                 /\ BalanceLines(content', op'.today, a)
                      = BalanceLines(content, op'.today, a)

C3_IdempotentAcrossRestarts ==
    []C3_NoSecondLine /\ [][C3_PassesOverExisting]_vars

\* A call after a restart found the line written before the restart and
\* passed over the account.
C3_Witness ==
    /\ config = ConfigPlain
    /\ restarts > 0
    /\ op.name = "tick_return"
    /\ op.scanned # <<>>
    /\ op.additions = <<>>
    /\ \A pos \in Range(op.scanned) :
          Cardinality(BalanceLines(content, op.today,
                                   AccountAt(config, pos).account)) = 1

\* C10: a call that returns has dealt with every due account exactly once:
\* passed over (already processed), failed (reported once in errors,
\* nothing appended for it), or appended (reported once in additions); a
\* failure of one account does not end the loop.  What a step of the call
\* adds to the file is exactly the lines of the additions it made.
C10_EveryDueAccountSettled ==
    op.name = "tick_return"
    => /\ \A k \in 1..Len(DueOf(op)) :
            LET pos == DueOf(op)[k] IN
            Occurrences(op.skipped \o op.scanned, pos) + Occurrences(op.errors, pos)
              + Cardinality({j \in 1..Len(op.additions) : op.additions[j].pos = pos})
              = 1
       /\ \A pos \in Range(op.errors) \cup AddedPositions(op.additions) :
            pos \in Range(DueOf(op))
       /\ \A pos \in Range(DueOf(op)) :
            AccountAt(config, pos).api_function = "unknown"
            => pos \notin AddedPositions(op.additions)

C10_AppendsOnlyAdditions ==
    op'.name \in TickOps
    => LET made == IF op'.resumed THEN Len(tick[op'.task].additions) ELSE 0
       IN  /\ content' = content \o AddedText(op'.additions, made + 1)
           /\ op'.resumed =>
                /\ SubSeq(op'.additions, 1, made) = tick[op'.task].additions
                /\ SubSeq(op'.errors, 1, Len(tick[op'.task].errors))
                     = tick[op'.task].errors

MessageIds == 1..(MaxMsgs + 1)

RevertOf(m) == op'.name = "revert" /\ op'.id = m

\* C4: when the last write to the ledger file is bean's append of a block
\* and the block is reverted, the revert succeeds and the file holds
\* the content it had before the append.
C4_RoundTrip ==
    [][\A m \in MessageIds :
         ( /\ RevertOf(m)
           /\ m \in DOMAIN pending_transactions
           /\ last_write.kind = "bean"
           /\ last_write.text = pending_transactions[m] )
         => /\ op'.answer = TransactionReverted
            /\ ledger_exists'
            /\ content' = last_write.before.content]_vars

\* A block appended to a file without a final newline was reverted and the
\* file holds what it held before.
C4_Witness ==
    /\ op.name = "revert"
    /\ op.answer = TransactionReverted
    /\ op.id \in reverted
    /\ ledger_exists
    /\ content = <<Comment>>

\* C5: a revert that finds the file not ending with the stored block
\* answers that the ledger has changed, leaves the file as it is and keeps
\* the pending entry.
C5_RevertConflict ==
    [][\A m \in MessageIds :
         ( /\ RevertOf(m)
           /\ m \in DOMAIN pending_transactions
           /\ ledger_exists
           /\ ~EndsWith(content, pending_transactions[m]) )
         => /\ op'.answer = LedgerHasChanged
            /\ content' = content
            /\ ledger_exists' = ledger_exists
            /\ pending_transactions' = pending_transactions]_vars

\* A revert was refused because something was appended after the block,
\* whose text is still in the file.
C5_Witness ==
    /\ op.name = "revert"
    /\ op.answer = LedgerHasChanged
    /\ op.id \in DOMAIN pending_transactions
    /\ ledger_exists
    /\ ~EndsWith(content, pending_transactions[op.id])
    /\ \E n \in 1..Len(content) :
          /\ n + Len(pending_transactions[op.id]) <= Len(content)
          /\ SubSeq(content, n, n + Len(pending_transactions[op.id]) - 1)
               = pending_transactions[op.id]

\* C7: a successful revert of message m removes m from
\* pending_transactions, and a revert asked for a message already reverted
\* answers 'Nothing to revert.' and does not touch the file.
C7_RemovedOnceReverted ==
    [][\A m \in MessageIds :
         RevertOf(m)
         => /\ op'.answer = TransactionReverted
                 => /\ m \in DOMAIN pending_transactions
                    /\ m \notin DOMAIN pending_transactions'
                    /\ m \in reverted'
            /\ m \in reverted
                 => /\ op'.answer = NothingToRevert
                    /\ content' = content
                    /\ ledger_exists' = ledger_exists
                    /\ pending_transactions' = pending_transactions]_vars

\* A second revert of a reverted message was answered 'Nothing to revert.'
C7_Witness ==
    /\ op.name = "revert"
    /\ op.answer = NothingToRevert
    /\ op.id \in reverted
    /\ op.id \notin DOMAIN pending_transactions

\* C8: a revert of a pending block when the ledger file is missing answers
\* that the file is missing, not that the ledger has changed; no file is
\* created and the pending entry stays.
C8_MissingLedgerFile ==
    [][\A m \in MessageIds :
         ( /\ RevertOf(m)
           /\ m \in DOMAIN pending_transactions
           /\ ~ledger_exists )
         => /\ op'.answer = LedgerFileMissing
            /\ op'.answer # LedgerHasChanged
            /\ ~ledger_exists'
            /\ content' = content
            /\ m \in DOMAIN pending_transactions'
            /\ pending_transactions'[m] = pending_transactions[m]]_vars

\* A revert found the ledger file missing.
C8_Witness ==
    /\ op.name = "revert"
    /\ op.answer = LedgerFileMissing
    /\ op.id \in DOMAIN pending_transactions
    /\ ~ledger_exists
    /\ deletes > 0

\* C6: pending_transactions never holds more than the capacity.
C6_PendingBounded ==
    Cardinality(DOMAIN pending_transactions) <= PendingCapacity

(***************************************************************************)
(* Properties of the rendered block.                                       *)
(***************************************************************************)
\* The sum of the amounts of the postings of a block, in hundredths.
RECURSIVE SumPostings(_, _)
SumPostings(text, i) ==
    IF i > Len(text) THEN 0
    ELSE (IF text[i].kind = "posting" THEN text[i].amount ELSE 0)
         + SumPostings(text, i + 1)

\* C9: the amounts of the postings of a block bean has written sum to zero.
C9_BalanceInvariant ==
    (op.name = "bean" /\ op.answer = "written") => SumPostings(op.text, 1) = 0

(***************************************************************************)
(* Properties of bean's handling of a message.                             *)
(***************************************************************************)
Postings(text) == SelectSeq(text, LAMBDA piece : piece.kind = "posting")

Headers(text) == SelectSeq(text, LAMBDA piece : piece.kind = "txn")

IsAmountToken(tok) == AmountTokenMatch(tok).matched

\* C11: bean ends in one of two ways: one block is appended to the ledger
\* and is the reply, or the ledger is unchanged and the reply is
\* 'error, ...'; no exception leaves the handler.
C11_BeanOutcomes ==
    [][op'.name = "bean"
       => \/ /\ op'.answer = "written"
             /\ Len(Headers(op'.text)) = 1
             /\ content' = content \o op'.text
             /\ bean_call'.text = op'.text
          \/ /\ op'.answer = "error"
             /\ content' = content
             /\ ledger_exists' = ledger_exists]_vars

C12_NeverInvalidAmount ==
    op.name = "bean"
    => /\ op.error # "Invalid amount format"
       /\ op.answer = "error" <=> op.msg = <<>>
       /\ (op.answer = "written" /\ Len(op.msg) >= 2 /\ ~IsAmountToken(op.msg[2]))
            => /\ Len(Postings(op.text)) = 1
               /\ Postings(op.text)[1].amount = 0
               /\ Headers(op.text)[1].note = Tail(op.msg)

C12_ErrorWritesNothing ==
    (op'.name = "bean" /\ op'.answer = "error")
    => /\ content' = content
       /\ ledger_exists' = ledger_exists
       /\ pending_transactions' = pending_transactions
       /\ bean_call' = bean_call

C13_DegenerateRejected ==
    (op.name = "bean" /\ Len(op.msg) <= 2) => op.answer = "error"

(***************************************************************************)
(* Properties of the functions of the compile pipeline.                    *)
(***************************************************************************)
\* the accounts of the chart the pattern of a fragment matches
Matching(base, chart) ==
    {chart[k] : k \in {j \in 1..Len(chart) : PatternMatch(base, chart[j])}}

\* C14: get_account returns a result for every fragment: ('TODO', 1) when
\* no account of the chart matches, (the account, 0) when one does, (one
\* of the matching accounts, 1) when several do.
C14_Trichotomy ==
    op.name = "get_account"
    => LET m == Matching(op.input, accounts)
           r == op.result
       IN  /\ ~r.raised
           /\ m = {} => (r.account = Todo /\ r.flag = 1)
           /\ Cardinality(m) = 1 => (r.account \in m /\ r.flag = 0)
           /\ Cardinality(m) >= 2 => (r.account \in m /\ r.flag = 1)

\* C15: the block bean writes carries '!' exactly when one of its legs
\* matched several accounts or none (and then reads 'TODO'), and '*'
\* exactly when every leg matched one account.
C15_ReviewMarker ==
    (op.name = "bean" /\ op.answer = "written")
    => LET legs == ParseMessage(op.msg).legs
           matches(i) == Cardinality(Matching(legs[i].account, accounts))
           mark == Headers(op.text)[1].flag
       IN  /\ Len(Postings(op.text)) = Len(legs)
           /\ mark \in {"!", "*"}
           /\ mark = "!" <=> \E i \in 1..Len(legs) : matches(i) # 1
           /\ mark = "*" <=> \A i \in 1..Len(legs) : matches(i) = 1
           /\ \A i \in 1..Len(legs) :
                Postings(op.text)[i].account = Todo <=> matches(i) = 0

\* A block with '!' whose legs matched one account each but one, which
\* matched several; a leg of another that matched none is covered by the
\* formula on every block.
C15_Witness ==
    /\ op.name = "bean"
    /\ op.answer = "written"
    /\ Headers(op.text)[1].flag = "!"
    /\ Len(Postings(op.text)) >= 2
    /\ LET legs == ParseMessage(op.msg).legs
       IN  Cardinality({i \in 1..Len(legs) :
                          Cardinality(Matching(legs[i].account, accounts)) >= 2}) = 1
           /\ \E i \in 1..Len(legs) :
                 Cardinality(Matching(legs[i].account, accounts)) = 1

\* data is n pairs of a token and an amount, a destination, and then
\* nothing or a note whose first token is no amount
PairsThenDestination(data, n) ==
    /\ Len(data) >= 2 * n + 1
    /\ \A k \in 1..n : IsAmountToken(data[2 * k])
    /\ Len(data) > 2 * n + 1 => ~IsAmountToken(data[2 * n + 2])

\* C16: get_leg_num returns n on a message of n >= 1 pairs, a destination
\* and a note that does not begin with an amount; 1 on three tokens
\* 'acct amount dest', 3 on '2739 4.5 in:cup 0.5 9423 1.0 5587 <note>'.
C16_LegNum ==
    op.name = "get_leg_num"
    => /\ \A n \in 1..Len(op.input) :
            PairsThenDestination(op.input, n) => op.result = n
       /\ (Len(op.input) = 3 /\ IsAmountToken(op.input[2])) => op.result = 1
       /\ op.input = MsgThreeLegs => op.result = 3

\* get_leg_num returned 2 on two pairs with a signed amount with a currency
\* code, a destination and a note of two words.
C16_Witness ==
    /\ op.name = "get_leg_num"
    /\ Len(op.input) = 7
    /\ PairsThenDestination(op.input, 2)
    /\ op.input[4] = <<"-", "1", ".", "0", "s", "g", "d">>
    /\ op.result = 2

\* the test of the loop at n with the last position it may read: the token
\* at position 2n+1 (counted from 0) is an amount and lies before last
CountsLeg(data, n, last) ==
    /\ 2 * n + 1 < last
    /\ IsAmountToken(data[2 * n + 2])

\* C24 as stated: n is incremented while the token at 2n+1 is an amount and
\* lies strictly before the second-to-last token, so that at least two
\* tokens remain after every counted leg.
C24_LegBoundSecondToLast ==
    op.name = "get_leg_num" =>
        /\ \A k \in 0..(op.result - 1) :
              /\ CountsLeg(op.input, k, Len(op.input) - 2)
              /\ Len(op.input) - (2 * k + 2) >= 2
        /\ ~CountsLeg(op.input, op.result, Len(op.input) - 2)

\* C24: get_leg_num increments n while the token at position 2n+1 is an
\* amount and lies strictly before the last token (at the second-to-last
\* token at most), so that at least one token, the destination, remains
\* after every counted leg; it returns the first n at which the test fails.
C24_LegBound ==
    op.name = "get_leg_num" =>
        /\ \A k \in 0..(op.result - 1) :
              /\ CountsLeg(op.input, k, Len(op.input) - 1)
              /\ Len(op.input) - (2 * k + 2) >= 1
        /\ ~CountsLeg(op.input, op.result, Len(op.input) - 1)

\* a leg is counted whose amount is the second-to-last token: one token is
\* left after it
C24_Witness ==
    /\ op.name = "get_leg_num"
    /\ Len(op.input) = 3
    /\ IsAmountToken(op.input[2])
    /\ op.result = 1

\* the amount (in thousandths) and the currency of an amount token
ValueOf(tok) == FloatOf(ParseAmountCurrency(tok).amount)

CodeOf(tok) == ParseAmountCurrency(tok).currency

RECURSIVE SumOfAmounts(_, _)
SumOfAmounts(data, n) ==
    IF n = 0 THEN 0 ELSE SumOfAmounts(data, n - 1) + ValueOf(data[2 * n])

\* C17: on a message with n source legs parse_message returns n + 1 legs
\* in message order: source leg i is the i-th pair's first token, minus its
\* amount, and its currency code in upper case or the default; the last
\* leg is the token after the pairs, the sum of the amounts, and the
\* currency of the last pair, the default when there is no pair; the note
\* is what follows.  'xxxx 4.5 xxxx' gives (xxxx, -4.5), (xxxx, 4.5), ''.
C17_ParseMessageLegs ==
    (op.name = "parse_message" /\ Len(op.input) >= 1)
    => LET data == op.input
           n == GetLegNum(data)
       IN  /\ op.result.ok
           /\ op.result.legs =
                [i \in 1..(n + 1) |->
                   IF i <= n
                   THEN [account |-> data[2 * i - 1], amount |-> -ValueOf(data[2 * i]),
                         currency |-> CodeOf(data[2 * i])]
                   ELSE [account |-> data[2 * n + 1], amount |-> SumOfAmounts(data, n),
                         currency |-> IF n = 0 THEN DefaultCurrency
                                      ELSE CodeOf(data[2 * n])]]
           /\ op.result.note = SubSeq(data, 2 * n + 2, Len(data))
           /\ (Len(data) = 3 /\ data[2] = <<"4", ".", "5">>)
                => /\ op.result.legs =
                        << [account |-> data[1], amount |-> -4500,
                            currency |-> DefaultCurrency],
                           [account |-> data[3], amount |-> 4500,
                            currency |-> DefaultCurrency] >>
                   /\ op.result.note = <<>>

\* parse_message returned three legs, the second of a negative amount with
\* a currency code, which is the currency of the last leg.
C17_Witness ==
    /\ op.name = "parse_message"
    /\ op.result.ok
    /\ Len(op.result.legs) = 3
    /\ op.input[2] = <<"4", ".", "5">>
    /\ op.input[4] = <<"-", "1", ".", "0", "s", "g", "d">>
    /\ op.result.legs[2].amount = 1000
    /\ op.result.legs[3].amount = 3500
    /\ op.result.legs[3].currency = <<"S", "G", "D">>
    /\ op.result.note # <<>>

\* tok is an optional sign, then e - s characters that are digits or
\* decimal points, at least one of them a digit and at most one a point,
\* then letters
SignedNumeral(tok, s, e) ==
    /\ s = 1 => tok[1] \in {"+", "-"}
    /\ \A k \in (s + 1)..e : IsDigit(tok[k]) \/ tok[k] = "."
    /\ \E k \in (s + 1)..e : IsDigit(tok[k])
    /\ Cardinality({k \in (s + 1)..e : tok[k] = "."}) <= 1
    /\ \A k \in (e + 1)..Len(tok) : IsLetter(tok[k])

\* what parse_amount_currency is to return for a token whose numeral ends
\* at e: the numeral as it is, the code in upper case or the default
AmountAndCode(tok, e) ==
    [ok |-> TRUE, amount |-> SubSeq(tok, 1, e),
     currency |-> IF e = Len(tok) THEN DefaultCurrency
                  ELSE [k \in 1..(Len(tok) - e) |-> UpperChar(tok[e + k])]]

\* C18 as stated: parse_amount_currency succeeds exactly on an optional
\* sign, digits with at most one decimal point, and an optional alphabetic
\* code, and returns the numeral and the code.
C18_AmountTokenLoose ==
    op.name = "parse_amount_currency"
    => LET tok == op.input IN
       /\ op.result.ok <=>
            \E s \in {0, 1} : \E e \in s..Len(tok) : SignedNumeral(tok, s, e)
       /\ \A s \in {0, 1} : \A e \in s..Len(tok) :
            SignedNumeral(tok, s, e) => op.result = AmountAndCode(tok, e)

\* C18: parse_amount_currency succeeds exactly on an optional sign, a
\* numeral of digits with at most one decimal point that does not end in
\* the point (digits, digits.digits or .digits), and an optional
\* alphabetic code; it returns the numeral as it is, sign included, and the
\* code in upper case, the default currency when there is no code; on every
\* other token it returns no result.
C18_AmountToken ==
    op.name = "parse_amount_currency"
    => LET tok == op.input IN
       /\ op.result.ok <=>
            \E s \in {0, 1} : \E e \in s..Len(tok) :
               SignedNumeral(tok, s, e) /\ IsDigit(tok[e])
       /\ \A s \in {0, 1} : \A e \in s..Len(tok) :
            (SignedNumeral(tok, s, e) /\ IsDigit(tok[e]))
            => op.result = AmountAndCode(tok, e)
       /\ ~op.result.ok => (op.result.amount = <<>> /\ op.result.currency = <<>>)

\* '-.4s' was parsed to ('-.4', 'S').
C18_Witness ==
    /\ op.name = "parse_amount_currency"
    /\ op.input = <<"-", ".", "4", "s">>
    /\ op.result.ok
    /\ op.result.amount = <<"-", ".", "4">>
    /\ op.result.currency = <<"S">>

\* C23: when a call of process_due_entries on a date returns without a
\* failed fetch or append (and nobody has removed the file), every account
\* of every entry due on that date has a balance line for the date and the
\* account in the ledger and is recorded as processed for the date, also
\* when the name of one account starts with the name of another.
C23_TickCompleteness ==
    (op.name = "tick_return" /\ op.errors = <<>> /\ deletes = 0)
        => \A a \in DueNames(op.today) :
              /\ BalanceLines(content, op.today, a) # {}
              /\ <<a, op.today>> \in last_processed

\* the characters of the words, one word after the other
RECURSIVE Flat(_)
Flat(words) == IF words = <<>> THEN <<>> ELSE words[1] \o Flat(Tail(words))

MatchesDate(matcher, d) ==
    \/ matcher.exact_date # NoDate /\ matcher.exact_date = d
    \/ matcher.exact_date = NoDate /\ matcher.day_of_month # NoDay
       /\ matcher.day_of_month = d.d

\* the entries of the configuration with a matcher that matches the date
EntriesOn(d) ==
    {e \in 1..Len(config) : \E matcher \in config[e].dates : MatchesDate(matcher, d)}

\* a step adds a balance line for an account and a date only when it is a
\* step of a call on that date and an entry with the account matches it
C25_LineOnlyWhenDue ==
    \A d \in Dates : \A a \in ConfiguredNames :
        BalanceLines(content', d, a) # BalanceLines(content, d, a)
            => /\ op'.name \in TickOps
               /\ op'.today = d
               /\ \E e \in EntriesOn(d) :
                     \E k \in 1..Len(config[e].accounts) : config[e].accounts[k].account = a

\* a call on a date that no entry matches, or without entries, returns
\* nothing and changes nothing
C25_IdleWhenNotDue ==
    (op'.name = "tick_return" /\ EntriesOn(op'.today) = {})
        => /\ op'.additions = <<>>
           /\ op'.errors = <<>>
           /\ UNCHANGED <<content, ledger_exists, last_processed>>

\* C25: a tick appends a balance line for an account only if a configured
\* entry with that account has a date matcher that matches today (its
\* exact date, or its day of the month when it has no exact date); a call
\* on a date that matches no entry, or with no entries, returns no
\* additions and no errors and leaves the ledger and the watermark alone.
C25_DueDatesOnly == [][C25_LineOnlyWhenDue]_vars /\ [][C25_IdleWhenNotDue]_vars

\* a call on the 15th of the first month under the configuration whose
\* entries match another month's 15th and the 16th has returned nothing
C25_Witness ==
    /\ op.name = "tick_return"
    /\ config = ConfigDates
    /\ op.today = DateOf(1)
    /\ op.additions = <<>>
    /\ last_processed = {}

\* C27: every block bean appends can be reverted: when bean ends after
\* having written a block, pending_transactions holds an entry whose text
\* is the block, also when sending the reply has failed.
C27_WrittenIsPending ==
    [][op'.name = "bean_reply"
         => \E k \in DOMAIN pending_transactions' :
               pending_transactions'[k] = bean_call.text]_vars

(***************************************************************************)
(* Properties of the balances.                                             *)
(***************************************************************************)
\* the postings of the transactions of the entries, by their positions
PostingPositions(entries) ==
    UNION { {<<i, j>> : j \in 1..Len(entries[i].postings)} :
            i \in {k \in 1..Len(entries) : entries[k].type = "Transaction"} }

RECURSIVE SumAt(_, _)
SumAt(entries, positions) ==
    IF positions = {} THEN 0
    ELSE LET x == CHOOSE y \in positions : TRUE
         IN  entries[x[1]].postings[x[2]].units.number + SumAt(entries, positions \ {x})

\* the sum of the amounts posted on the account in the currency
PostedOn(entries, account, currency) ==
    SumAt(entries, { x \in PostingPositions(entries) :
                       /\ entries[x[1]].postings[x[2]].account = account
                       /\ entries[x[1]].postings[x[2]].units.present
                       /\ entries[x[1]].postings[x[2]].units.currency = currency })

\* the number an account holds in a currency
HeldIn(built, account, currency) ==
    IF account \in DOMAIN built /\ currency \in DOMAIN built[account]
    THEN built[account][currency]
    ELSE 0

\* a numeral without exponent and without trailing zeros that reads back as
\* the number
NormalNumeral(numeral, number) ==
    /\ FloatOf(numeral) = 10 * number
    /\ \A i \in 1..Len(numeral) :
         numeral[i] = "." => i < Len(numeral) /\ numeral[Len(numeral)] # "0"

ShownAs(number, currency) == FormatNumber(number) \o <<" ">> \o currency

\* C19: build_account_balances holds, for every account and currency, the
\* sum of the amounts of the transaction postings on that account in that
\* currency, postings without units and directives that are no transaction
\* adding nothing; format_inventory lists the non-zero positions in
\* ascending order of the currency code, joined by ', ', each as a numeral
\* without trailing zeros and the code, and renders an inventory that is
\* empty or missing as '0'.
C19_BalanceAggregator ==
    op.name = "build_account_balances" =>
        \A a \in QueriedAccounts :
            LET usd == PostedOn(op.input, a, USD)
                cny == PostedOn(op.input, a, CNY)
            IN  /\ HeldIn(op.result.balances, a, USD) = usd
                /\ HeldIn(op.result.balances, a, CNY) = cny
                /\ NormalNumeral(FormatNumber(usd), usd)
                /\ NormalNumeral(FormatNumber(cny), cny)
                /\ op.result.text[a] =
                     IF usd = 0 /\ cny = 0 THEN <<"0">>
                     ELSE IF usd = 0 THEN ShownAs(cny, CNY)
                     ELSE IF cny = 0 THEN ShownAs(usd, USD)
                     ELSE ShownAs(cny, CNY) \o <<",", " ">> \o ShownAs(usd, USD)

\* +100 then -30 on one account, and 200 in a second currency: the account
\* shows '200 CNY, 70 USD', and an account without postings shows '0'
C19_Witness ==
    /\ op.name = "build_account_balances"
    /\ op.input = <<Salary, Dinner, Bonus>>
    /\ op.result.text[ChartAssetsCup] =
         <<"2", "0", "0", " ", "C", "N", "Y", ",", " ", "7", "0", " ", "U", "S", "D">>
    /\ op.result.text[ChartExpenses] = <<"3", "0", " ", "U", "S", "D">>
    /\ op.result.text[ChartChecking] = <<"0">>

(***************************************************************************)
(* Properties of the session state.                                        *)
(***************************************************************************)
\* C20: a reload is all or nothing: after it the chart of accounts, the
\* balances and the query connection all derive from the entries it has
\* just loaded, or, when it has failed on the way, all three are what they
\* were before it.
C20_ReloadAllOrNothing ==
    [][op'.name = "reload_ledger" =>
         \/ /\ ~op'.load.raised
            /\ Range(accounts') = OpenAccounts(op'.load.entries)
            /\ balances' = BuildAccountBalances(op'.load.entries)
            /\ bql_connection' = Connected(op'.load.entries)
         \/ UNCHANGED <<accounts, balances, bql_connection>>]_vars

(***************************************************************************)
(* Properties of render_bql_query.                                         *)
(***************************************************************************)
\* the positions of the text where the placeholder starts
PlaceholderAt(sql) ==
    {i \in 1..Len(sql) : i + 5 <= Len(sql) /\ sql[i] = "[" /\ sql[i + 1] = "a"
                         /\ sql[i + 2] = "r" /\ sql[i + 3] = "g"
                         /\ sql[i + 4] = "s" /\ sql[i + 5] = "]"}

\* the number of single quotes of a text
QuotesIn(text) == Cardinality({i \in 1..Len(text) : text[i] = "'"})

\* quoted is the argument between single quotes, each of its single quotes
\* twice: dropping the second quote of every pair gives the argument back
RECURSIVE Undoubled(_, _)
Undoubled(text, i) ==
    IF i > Len(text) THEN <<>>
    ELSE IF text[i] = "'" /\ i < Len(text) /\ text[i + 1] = "'"
    THEN <<"'">> \o Undoubled(text, i + 2)
    ELSE <<text[i]>> \o Undoubled(text, i + 1)

IsQuoted(quoted, argument) ==
    /\ Len(quoted) = Len(argument) + QuotesIn(argument) + 2
    /\ quoted[1] = "'" /\ quoted[Len(quoted)] = "'"
    /\ QuotesIn(quoted) = 2 * QuotesIn(argument) + 2
    /\ Undoubled(SubSeq(quoted, 2, Len(quoted) - 1), 1) = argument

\* text is sql with the placeholders at the positions from the k-th on (in
\* ascending order) replaced by a quoted argument, read from position j of
\* text and position i of sql
RECURSIVE Substituted(_, _, _, _, _)
Substituted(sql, text, argument, i, j) ==
    LET width == Len(argument) + QuotesIn(argument) + 2
    IN  IF i > Len(sql) THEN j = Len(text) + 1
        ELSE IF i \in PlaceholderAt(sql)
        THEN /\ j + width - 1 <= Len(text)
             /\ IsQuoted(SubSeq(text, j, j + width - 1), argument)
             /\ Substituted(sql, text, argument, i + 6, j + width)
        ELSE /\ j <= Len(text)
             /\ text[j] = sql[i]
             /\ Substituted(sql, text, argument, i + 1, j + 1)

\* C21: for a query with the placeholder and a non-empty argument the
\* result is the query with the placeholder replaced by the argument in
\* single quotes, every single quote of it doubled; a query with the
\* placeholder and an empty argument, and a query without the placeholder
\* and with an argument, raise ValueError and give no text.
C21_RenderBqlQuery ==
    op.name = "render_bql_query" =>
        LET sql == op.input.sql
            argument == op.input.user_arguments
            placeholder == PlaceholderAt(sql) # {}
        IN  /\ placeholder /\ argument # <<>>
                => ~op.result.raised /\ Substituted(sql, op.result.text, argument, 1, 1)
            /\ placeholder /\ argument = <<>>
                => op.result.raised /\ op.result.text = <<>>
            /\ ~placeholder /\ argument # <<>>
                => op.result.raised /\ op.result.text = <<>>

\* "a~[args]" with the argument c'] gives a~'c'']'
C21_Witness ==
    /\ op.name = "render_bql_query"
    /\ op.input.sql = <<"a", "~", "[", "a", "r", "g", "s", "]">>
    /\ op.input.user_arguments = <<"c", "'", "]">>
    /\ op.result.text = <<"a", "~", "'", "c", "'", "'", "]", "'">>

(***************************************************************************)
(* Properties of the auto-balance configuration.                           *)
(***************************************************************************)
\* datetime.time of a text 'HH:MM'
TimeOf(text) ==
    [hour |-> DigitsValue(SubSeq(text, 1, 2)), minute |-> DigitsValue(SubSeq(text, 4, 5))]

\* C22: the configuration load_auto_balance_config returns has a runtime:
\* 01:00 when the section gives no 'runtime', the time it gives otherwise.
C22_ConfigRuntime ==
    op.name = "load_auto_balance_config" =>
        /\ "runtime" \in DOMAIN op.result
        /\ op.result.runtime = IF "runtime" \in op.input.given
                               THEN TimeOf(op.input.runtime)
                               ELSE [hour |-> 1, minute |-> 0]

(***************************************************************************)
(* C28: reverts on a shared ledger file.                                   *)
(***************************************************************************)
\* Message ids grow with the replies, and a reply follows its append before
\* the next message is handled: of two recorded blocks the one with the
\* larger id was appended later.  A block with a different text was
\* appended after the block of message_id, is not reverted, and the file
\* ends with it.
LaterBlockIsSuffix(message_id) ==
    \E later \in DOMAIN pending_transactions :
        /\ message_id \in DOMAIN pending_transactions
        /\ message_id < later
        /\ pending_transactions[later] # pending_transactions[message_id]
        /\ ledger_exists
        /\ EndsWith(content, pending_transactions[later])

\* the recorded blocks with an id of k or more, in the order of their ids
RECURSIVE BlocksText(_, _)
BlocksText(pending, k) ==
    IF k >= next_message_id THEN <<>>
    ELSE (IF k \in DOMAIN pending THEN pending[k] ELSE <<>>)
         \o BlocksText(pending, k + 1)

\* every block bean appended was sent and recorded: the blocks not reverted
\* are the recorded ones
AllRecorded == bean_call.pc = "idle" /\ next_message_id = posts + 1

\* C28: after T1 and then T2 with a different text were appended, a revert
\* of T1 while the file ends with T2 is refused as a conflict, and after
\* appends and reverts the file content is the initial content followed by
\* the blocks appended and not reverted, in the order of their appends.
C28_LifoReverts ==
    /\ [][\A message_id \in 1..MaxMsgs :
             RevertTransaction(message_id) /\ LaterBlockIsSuffix(message_id)
                 => op'.answer = LedgerHasChanged]_vars
    /\ [](AllRecorded => content = <<Comment, NL>> \o BlocksText(pending_transactions, 1))

(***************************************************************************)
(* C29: an account whose fetch or append failed.                           *)
(***************************************************************************)
\* the account names with a failure and no addition in the call that returned
FailedNames(result) ==
    {AccountAt(config, pos).account : pos \in Range(result.errors)}
        \ AddedNames(result.additions)

\* the call that made this step got to the account named a: it fetched for
\* it (an addition, a failure or the await it is suspended at), or it is
\* suspended before it reached one of its positions
GotTo(result, suspended, a) ==
    LET due == DuePositions(config, result.today)
    IN  \/ a \in AddedNames(result.additions)
        \/ \E pos \in Range(result.errors) : AccountAt(config, pos).account = a
        \/ /\ result.name = "tick_await"
           /\ \E j \in suspended.idx..Len(due) : AccountAt(config, due[j]).account = a

\* C29: a call of process_due_entries in which the fetch or the append of a
\* due account failed records no watermark for that account and the date,
\* and the next call on the same date fetches for the account again and,
\* when it succeeds, appends one balance line of the account and date.
C29_FailedStaysUnprocessed ==
    /\ [][op'.name = "tick_return" =>
             \A a \in FailedNames(op') : <<a, op'.today>> \notin last_processed']_vars
    /\ [][(/\ op.name = "tick_return"
           /\ op'.name \in {"tick_return", "tick_await"}
           /\ ~op'.resumed
           /\ op'.today = op.today)
          => \A a \in FailedNames(op) :
                /\ GotTo(op', tick'[op'.task], a)
                /\ a \in AddedNames(op'.additions)
                      => /\ Cardinality({k \in DOMAIN op'.additions :
                               AccountAt(config, op'.additions[k].pos).account = a}) = 1
                         /\ Cardinality(BalanceLines(content', op.today, a)) <= 1]_vars

(***************************************************************************)
(* C30: bean and process_due_entries append, revert_transaction cuts.      *)
(***************************************************************************)
\* what the step has put after the content the file had
Added == SubSeq(content', Len(content) + 1, Len(content'))

\* C30: a step of bean or of process_due_entries leaves the content the
\* file had as a prefix of its content, and what it adds ends with a
\* newline; the program shortens the file only in a revert that answers
\* 'Transaction reverted.', and such a revert cuts the text of the reverted
\* block, no more and no less, off the end of the file.
C30_AppendOnly ==
    /\ [][op'.name \in {"bean", "tick_return", "tick_await"} =>
             /\ IsPrefix(content, content')
             /\ Added # <<>> => Added[Len(Added)] = NL]_vars
    /\ [][(Len(content') < Len(content) /\ op'.name # "delete_ledger") =>
             (op'.name = "revert" /\ op'.answer = TransactionReverted)]_vars
    /\ [][(op'.name = "revert" /\ op'.answer = TransactionReverted) =>
             /\ pending_transactions[op'.id] # <<>>
             /\ content = content' \o pending_transactions[op'.id]]_vars

\* a block was reverted in a file that holds a balance line of the
\* scheduler and a block of bean
C30_Witness ==
    /\ op.name = "revert"
    /\ op.answer = TransactionReverted
    /\ \E i \in DOMAIN content : content[i].kind = "balance"
    /\ \E i \in DOMAIN content : content[i].kind = "posting"

====
